---- MODULE Spec2Model ----
(***************************************************************************)
(* Kiln controller firmware (bisque): thermocouple sampler, safety         *)
(* supervisor, SSR output, firing engine and firing history.               *)
(*                                                                         *)
(* Conventions.                                                            *)
(*  - Time is the monotonic clock esp_timer_get_time(), counted here in    *)
(*    milliseconds; the source's microsecond quantities keep their names   *)
(*    with the suffix _MS.  The clock advances in steps of the sampler     *)
(*    period (250 ms); every periodic task runs once per period of its     *)
(*    own (vTaskDelayUntil), in any order within a step.                   *)
(*  - Temperatures are whole degrees Celsius; the ramp setpoint is kept in *)
(*    thousandths of a degree.                                             *)
(*  - A duty (float 0.0 .. 1.0 in the source) is counted in percent, so    *)
(*    DUTY_ONE stands for 1.0f.                                            *)
(*  - The event group is the set of the names of its set bits.             *)
(*  - The statics of firing_engine.c are the fields of fe, those of        *)
(*    firing_history.c (and its files) the fields of hist.                 *)
(*  - The fields h_at_target_seen and h_unheld_advances of fe are history: *)
(*    they record whether the running segment was seen at its target, and  *)
(*    what advanced a segment that was not.                                *)
(*  - pid_compute and the relay-cycle bookkeeping of pid_autotune_update   *)
(*    are numeric; here their results are chosen by the environment from   *)
(*    the values the code can return.                                      *)
(***************************************************************************)
EXTENDS Integers, Sequences, FiniteSets, TLC

VARIABLES
    now,                    \* esp_timer_get_time()
    s_latest_reading,       \* thermocouple.c: cached reading
    s_max_safe_temp,        \* safety: ceiling
    s_ssr_duty,             \* safety: stored duty
    s_ssr_window_start_ms,  \* safety: start of the time-proportional window
    ssr_level,              \* level of the SSR GPIO
    event_bits,             \* safety: s_event_group
    last_valid_reading_ms,  \* safety_task local
    supervisor_trip,        \* history: the condition on which safety_task
                            \* set the latch that holds, "NONE" if it set
                            \* none
    last_fault_free_ms,     \* history: time of the sampler's last fault-free
                            \* sample, 0 while there is none
    sched,                  \* periodic tasks: what already ran in this period
    ssr_pc,                 \* position of each task inside safety_set_ssr
    ssr_arg,                \* the (clamped) duty argument of that call
    fe,                     \* firing engine statics and firing_task locals
    hist,                   \* firing history statics and files
    s_cmd_queue,            \* firing engine: command inbox
    s_settings,             \* firing engine: kiln settings
    nvs_settings,           \* the stored copy of the kiln settings
    diag,                   \* handle_diag_relay: position and wake-up time
    requests_sent,          \* number of requests made so far
    http_response,          \* the answer of the last command request
    calc                    \* a library function called on its own: its
                            \* name, the state it works on, its arguments
                            \* and its result

sensorVars == <<s_latest_reading, last_fault_free_ms>>
supervisorVars == <<last_valid_reading_ms, supervisor_trip>>
ssrVars == <<s_ssr_duty, s_ssr_window_start_ms, ssr_level>>
callVars == <<ssr_pc, ssr_arg>>
engineVars == <<fe, hist, s_cmd_queue, s_settings, nvs_settings, diag,
                requests_sent,
                http_response, calc>>

vars == <<now, s_latest_reading, s_max_safe_temp, s_ssr_duty,
          s_ssr_window_start_ms, ssr_level, event_bits,
          last_valid_reading_ms, supervisor_trip, last_fault_free_ms, sched,
          ssr_pc, ssr_arg, fe, hist, s_cmd_queue, s_settings, nvs_settings,
          diag, requests_sent,
          http_response, calc>>

(***************************************************************************)
(* Bounds of the model                                                     *)
(***************************************************************************)
\* number of 250 ms steps the clock of SpecSafety may advance
MaxQuanta == 23

\* number of 250 ms steps the clock of SpecSsr may advance
MaxSsrQuanta == 4

\* number of 250 ms steps the clock of Spec may advance
MaxEngineQuanta == 4

\* number of requests (commands sent to the inbox, relay diagnostics) in
\* one behaviour
MaxRequests == 2

\* number of commands sent to the inbox in one behaviour of SpecFiring
MaxFiringRequests == 3

\* largest magnitude of the PID integral from which SpecPid goes on
MaxPidIntegral == 200

\* number of settings requests made in a behaviour of SpecSettings
MaxSettingsRequests == 2

\* number of 250 ms steps the clock of SpecGuard may advance: the 15
\* minutes of the not-rising guard and two engine ticks
MaxGuardQuanta == 3608

\* number of commands sent to the inbox in one behaviour of SpecGuard
MaxGuardRequests == 2

\* number of 250 ms steps the clock of SpecRunaway may advance: the 300
\* seconds before the runaway check applies and six engine ticks
MaxRunawayQuanta == 1224

\* number of commands sent to the inbox in one behaviour of SpecRunaway
MaxRunawayRequests == 2

\* number of calls made in a behaviour of SpecStore
MaxStoreCalls == 4

\* number of calls made in a behaviour of SpecProfiles
MaxProfileCalls == 3

\* number of 250 ms steps the clock of SpecSettings may advance
MaxSettingsQuanta == 3

\* number of 250 ms steps the clock of SpecHold may advance: one minute of
\* hold after the first engine tick
MaxHoldQuanta == 240

\* number of commands sent to the inbox in one behaviour of SpecHold
MaxHoldRequests == 2

\* number of sampler periods in one behaviour of SpecDelay: the minute of
\* a start delay or of a hold, from a start in any of the first seconds
MaxDelayQuanta == 252

\* number of sampler periods in which SpecDelay sends commands
MaxDelayCommandQuanta == 8

\* number of commands sent to the inbox in one behaviour of SpecDelay
MaxDelayRequests == 2

\* number of iterations of temp_read_task in one behaviour of SpecSensor
MaxSensorReads == 3

\* number of calls of thermocouple_get_latest in one behaviour of SpecSensor
MaxSensorCopies == 2

\* number of sampler periods in one behaviour of SpecAutotune
MaxAutotuneQuanta == 48

\* number of commands sent to the inbox in one behaviour of SpecAutotune
MaxAutotuneRequests == 2

\* number of sampler periods in one behaviour of SpecDuty
MaxDutyQuanta == 20

\* number of commands sent to the inbox in one behaviour of SpecDuty
MaxDutyRequests == 1

\* the controller outputs of SpecDuty, in hundredths
PartDuties == {25, 50, 75}

\* number of sampler periods in one behaviour of SpecIntake
MaxIntakeQuanta == 6

\* number of HTTP requests in one behaviour of SpecIntake
MaxIntakeCalls == 3

\* length of the longest segment array posted in SpecIntake
LongSegmentCount == 17

\* number of calls of cone_fire_generate in one behaviour of SpecCone
MaxConeCalls == 2

\* number of command requests in one behaviour of SpecInbox
MaxInboxRequests == 5

\* number of 250 ms steps the clock of SpecInbox may advance
MaxInboxQuanta == 1

\* setpoints of an auto-tune request
AutotuneSetpoints == {500, 1350}

\* gains of the PID controller (percent of duty per degree, per
\* degree-second, per degree per second)
PidKp == {0, 2}

PidKi == {0, 1}

PidKd == {0, 50}

\* arguments of pid_compute: setpoint and measured value in degrees, time
\* step in seconds
PidSetpoints == {0, 100}

PidMeasured == {20, 90}

PidDts == {-1, 0, 1, 2}

\* the mean relay-cycle amplitudes auto-tune may measure, in tenths of a
\* degree (0: below the 0.1 degree minimum), and the mean periods in seconds
AutotuneAmplitudes == {0, 10, 25, 50, 100, 200}
AutotunePeriods == {30, 60, 100, 300, 600}

\* minutes an auto-tune run has lasted when its last step is taken: within
\* the timeout of 60 minutes, or past it
AutotuneElapsedMin == {30, 61}

\* gains are carried in millionths: 2.0 is 2000000
GAIN_ONE == 1000000
DEFAULT_KP == 2 * GAIN_ONE
DEFAULT_KI == GAIN_ONE \div 100
DEFAULT_KD == 50 * GAIN_ONE
\* the stored integer is the gain times 10000
GAIN_SCALE == 10000
\* 4 / pi in millionths
FOUR_OVER_PI == 1273240

\* temperatures a thermocouple frame may carry
SampleTemps == {20, 1350, 1401}

\* arguments handed to safety_set_max_temp
MaxTempInputs == {1000, 1500}

\* the characters of the profile ids of the model; an id is the sequence
\* of its characters
Digits == <<"0", "1", "2", "3", "4", "5", "6", "7", "8", "9">>
Letters == {"a", "b", "c", "e", "i", "o", "p", "q", "s", "u", "y"}

\* the id of the i-th numbered profile: two digits
NumberedId(i) == <<Digits[(i \div 10) + 1], Digits[(i % 10) + 1]>>

\* a default profile's id, the ids the web client gives two copies of it
\* ("bisque-04-copy-a", "bisque-04-copy-b"), and two short ids that differ
\* in one character that is no letter or digit
IdBisque04 == <<"b", "i", "s", "q", "u", "e", "-", "0", "4">>
IdCopyA == IdBisque04 \o <<"-", "c", "o", "p", "y", "-", "a">>
IdCopyB == IdBisque04 \o <<"-", "c", "o", "p", "y", "-", "b">>
IdDash == <<"a", "-", "b">>
IdUnderscore == <<"a", "_", "b">>
CopyIds == {IdBisque04, IdCopyA, IdCopyB, IdDash, IdUnderscore}

\* the segment lists of the profiles saved
StoredSegments ==
    {<<[ramp_rate |-> 100, target_temp |-> 600, hold_time |-> 10]>>,
     <<[ramp_rate |-> 150, target_temp |-> 1000, hold_time |-> 0],
       [ramp_rate |-> -50, target_temp |-> 500, hold_time |-> 5]>>}

\* the numbers of stored profiles and of history records SpecStore starts
\* from, the profile ids saved and deleted (ids are numbered), and the
\* outcomes of the firings recorded
StoredCounts == {0, 19, 20}
HistoryCounts == {0, 18, 19}
ProfileIds == {NumberedId(1), NumberedId(20), NumberedId(21), NumberedId(22)}
Outcomes == {"COMPLETE", "ABORTED", "ERROR"}

\* the maxSafeTemp a POST /api/v1/settings may carry (none: <<>>)
SettingsMaxTemps == {<<>>, <<50>>, <<1000>>, <<1500>>}

\* the tcOffsetC a POST /api/v1/settings may carry (none: <<>>)
SettingsTcOffsets == {<<>>, <<5>>}

\* the "max_temp" key of the settings storage at start-up: missing, or a
\* value stored by firing_engine_set_settings of this engine or of the
\* earlier one, which stores the value as it was handed in
StoredMaxTemps == {<<>>, <<100>>, <<1000>>, <<1500>>}

\* arguments handed to safety_set_max_temp while a firing may run
LowMaxTempInputs == {1000}

\* duties handed to safety_set_ssr by the callers of SpecSsr (percent;
\* out-of-range values included)
DutyInputs == {-50, 50, 150}

\* tasks that call safety_set_ssr
Callers == {"firing", "http"}

\* durationSeconds of a relay-diagnostic request
DiagDurations == {1}

\* results of pid_compute (percent)
PidOutputs == {0, 100}

(***************************************************************************)
(* Program constants                                                       *)
(***************************************************************************)
HARDWARE_MAX_TEMP_C == 1400
TEMP_FAULT_TIMEOUT_MS == 5 * 1000
SSR_WINDOW_MS == 2000
DEFAULT_MAX_SAFE_TEMP == 1300

\* the range firing_engine_set_settings keeps max_safe_temp in
SETTINGS_MAX_TEMP_C == 1400
SETTINGS_MIN_TEMP_C == 100
SAFETY_PERIOD_MS == 500
TEMP_READ_PERIOD_MS == 250
FIRING_PERIOD_MS == 1000
DUTY_ONE == 100
CMD_QUEUE_LEN == 4
HISTORY_MAX_RECORDS == 20
FIRING_MAX_PROFILES == 20
FIRING_MAX_SEGMENTS == 16

\* the longest key of the non-volatile storage
NVS_KEY_LEN == 15
RISING_CHECK_INTERVAL_MS == 15 * 60 * 1000
RISING_THRESHOLD_C == 10
RUNAWAY_RATE_MULTIPLIER == 2
RUNAWAY_GRACE_MS == 300 * 1000
RUNAWAY_MIN_RATE_C_HR == 50
HISTORY_SAMPLE_INTERVAL_MS == 60 * 1000
ELEM_SAVE_INTERVAL_MS == 5 * 60 * 1000
AUTOTUNE_TIMEOUT_MS == 60 * 60 * 1000
DIAG_RELAY_MIN_S == 1
DIAG_RELAY_MAX_S == 10

SAFETY_BIT_EMERGENCY_STOP == "EMERGENCY_STOP"
SAFETY_BIT_TEMP_FAULT == "TEMP_FAULT"
SAFETY_BIT_FIRING_COMPLETE == "FIRING_COMPLETE"

TC_FAULT_OPEN_CIRCUIT == 1

\* fault masks a frame may carry (0 = D16 clear)
FaultInputs == {0, TC_FAULT_OPEN_CIRCUIT}

\* time the boot sequence took before the tasks were created
BootTimeMs == TEMP_READ_PERIOD_MS

Min(a, b) == IF a < b THEN a ELSE b

Abs(a) == IF a < 0 THEN 0 - a ELSE a

(***************************************************************************)
(* Thermocouple                                                            *)
(***************************************************************************)
\* thermocouple_init: memset of the cached reading
InitialReading == [temperature_c |-> 0, fault |-> 0, timestamp_ms |-> 0]

\* thermocouple_read on a successful bus transfer: a frame with the fault
\* bit reports temperature 0 and the fault mask, any other frame its value
thermocouple_read(frame, t) ==
    IF frame.fault # 0
    THEN [temperature_c |-> 0, fault |-> frame.fault, timestamp_ms |-> t]
    ELSE [temperature_c |-> frame.temp, fault |-> 0, timestamp_ms |-> t]

Frames == [fault : FaultInputs, temp : SampleTemps]

\* the 32-bit word of the converter by its bit fields: tc is D31..D18, d16
\* the fault bit, internal D15..D4, low D2..D0.  The converter sets D16
\* exactly when one of D2..D0 is set.
RawFrames ==
    {r \in [tc : {80, 16383}, d16 : {0, 1}, internal : {400, 4095},
            low : {0, 1, 4, 7}] : (r.d16 = 1) <=> (r.low # 0)}

\* thermocouple_read on a successful bus transfer, on the word of the
\* converter: temperature in quarters and cold junction in sixteenths of a
\* degree, both sign-extended; a word with the fault bit reports 0 for both
\* and the three low bits as fault mask
thermocouple_read_raw(raw, t) ==
    IF raw.d16 = 1
    THEN [temperature_c |-> 0, internal_temp_c |-> 0, fault |-> raw.low,
          timestamp_us |-> t]
    ELSE [temperature_c |-> IF raw.tc >= 8192 THEN raw.tc - 16384
                            ELSE raw.tc,
          internal_temp_c |-> IF raw.internal >= 2048
                              THEN raw.internal - 4096 ELSE raw.internal,
          fault |-> 0, timestamp_us |-> t]

\* the fields of thermocouple_reading_t in the order a copy moves them
ReadingFields == <<"temperature_c", "internal_temp_c", "fault",
                   "timestamp_us">>

\* thermocouple_init: memset of the cached reading, all fields
ZeroReading == [temperature_c |-> 0, internal_temp_c |-> 0, fault |-> 0,
                timestamp_us |-> 0]

\* a critical section that lets a task in whoever holds it
MuxIgnored(mux) == TRUE

\* portENTER_CRITICAL(&s_reading_mux): a task enters when no task holds it
MuxFree(mux) == mux = ""

\* frames of a sound sensor: room temperature, or above every ceiling
SoundFrames == [fault : {0}, temp : {20, 1401}]

\* frames of a sound sensor in a kiln that is at 20 or at 50 degrees
WarmFrames == [fault : {0}, temp : {20, 50}]

\* frames of a sound sensor in a kiln that swings around 500 degrees
SwingFrames == [fault : {0}, temp : {490, 497, 510}]

\* frames of a sound sensor in a kiln at room temperature
RoomFrames == [fault : {0}, temp : {20}]

\* two reads of the clock are at least a microsecond apart: a difference
\* below one millisecond is positive all the same
ClockDelta(dt_ms) == IF dt_ms = 0 THEN 1 ELSE dt_ms

\* one iteration of temp_read_task: the cached reading is replaced only
\* when the bus read succeeded
TempReadStore(ok, frame) ==
    s_latest_reading' = IF ok THEN thermocouple_read(frame, now)
                        ELSE s_latest_reading

(***************************************************************************)
(* Safety module                                                           *)
(***************************************************************************)
safety_is_emergency(bits) == SAFETY_BIT_EMERGENCY_STOP \in bits

\* safety_init / safety_set_max_temp: the ceiling never exceeds the
\* hardware maximum
ClampMaxTemp(max_safe_temp) ==
    IF max_safe_temp < HARDWARE_MAX_TEMP_C THEN max_safe_temp
    ELSE HARDWARE_MAX_TEMP_C

\* safety_set_ssr: clamp of the argument
ClampDuty(duty) ==
    IF duty < 0 THEN 0 ELSE IF duty > DUTY_ONE THEN DUTY_ONE ELSE duty

\* safety_set_ssr: the window restarts once it is used up
SsrWindowStart(t, window_start) ==
    IF t - window_start >= SSR_WINDOW_MS THEN t ELSE window_start

\* safety_set_ssr: level of the time-proportional output
SsrLevel(duty, t, window_start) ==
    LET elapsed == t - SsrWindowStart(t, window_start)
        on_time == (duty * SSR_WINDOW_MS) \div DUTY_ONE
    IN IF elapsed < on_time THEN 1 ELSE 0

(* The safety state as a record, so that straight-line code calling        *)
(* safety functions can be composed.                                       *)
SafetyState == [duty |-> s_ssr_duty, level |-> ssr_level,
                window_start |-> s_ssr_window_start_ms, bits |-> event_bits]

\* safety_emergency_stop: SSR low, duty zeroed, latch set
safety_emergency_stop(s) ==
    [s EXCEPT !.level = 0, !.duty = 0,
              !.bits = @ \cup {SAFETY_BIT_EMERGENCY_STOP}]

\* safety_clear_emergency
safety_clear_emergency(bits) == bits \ {SAFETY_BIT_EMERGENCY_STOP}

\* handle_diag_relay: clamp of the requested duration
ClampDiagDuration(duration_s) ==
    IF duration_s < DIAG_RELAY_MIN_S THEN DIAG_RELAY_MIN_S
    ELSE IF duration_s > DIAG_RELAY_MAX_S THEN DIAG_RELAY_MAX_S
    ELSE duration_s

\* safety_set_ssr executed without interruption
safety_set_ssr(s, duty, t) ==
    IF safety_is_emergency(s.bits)
    THEN [s EXCEPT !.level = 0]
    ELSE [s EXCEPT !.duty = ClampDuty(duty),
                   !.window_start = SsrWindowStart(t, s.window_start),
                   !.level = SsrLevel(ClampDuty(duty), t, s.window_start)]

\* an over-temperature test that knows the hardware maximum only
OverTempHardwareOnly(reading, max_temp) ==
    reading.temperature_c > HARDWARE_MAX_TEMP_C

\* over-temperature test of safety_task
OverTemp(reading, max_temp) ==
    reading.temperature_c > max_temp
    \/ reading.temperature_c > HARDWARE_MAX_TEMP_C

\* a thermocouple-fault test that trips when the time-out is reached
FaultPersistedAtTimeout(reading, t, last_valid) ==
    reading.fault # 0 /\ (t - last_valid) >= TEMP_FAULT_TIMEOUT_MS

\* thermocouple-fault test of safety_task
FaultPersisted(reading, t, last_valid) ==
    reading.fault # 0 /\ (t - last_valid) > TEMP_FAULT_TIMEOUT_MS

\* stale-reading test of safety_task
StaleReading(reading, t) ==
    reading.timestamp_ms > 0
    /\ (t - reading.timestamp_ms) > TEMP_FAULT_TIMEOUT_MS

\* a clear of every fault bit, the latch included
ClearFaultBits(bits) ==
    bits \ {SAFETY_BIT_TEMP_FAULT, SAFETY_BIT_EMERGENCY_STOP}

\* the bits a fault-free reading leaves (safety_task clears TEMP_FAULT)
ClearTempFault(bits) == bits \ {SAFETY_BIT_TEMP_FAULT}

\* one iteration of the loop of safety_task on safety state s
SafetyIteration(s, reading, t, last_valid, max_temp) ==
    LET s1 == IF reading.fault # 0
              THEN IF FaultPersisted(reading, t, last_valid)
                   THEN safety_emergency_stop(
                          [s EXCEPT !.bits = @ \cup {SAFETY_BIT_TEMP_FAULT}])
                   ELSE s
              ELSE LET c == [s EXCEPT !.bits = ClearTempFault(@)]
                   IN IF OverTemp(reading, max_temp)
                      THEN safety_emergency_stop(c) ELSE c
    IN IF StaleReading(reading, t)
       THEN safety_emergency_stop(
              [s1 EXCEPT !.bits = @ \cup {SAFETY_BIT_TEMP_FAULT}])
       ELSE s1

\* the condition on which an iteration of safety_task calls
\* safety_emergency_stop, "NONE" if it does not
TripCause(reading, t, last_valid, max_temp) ==
    IF FaultPersisted(reading, t, last_valid) THEN "TEMP_FAULT"
    ELSE IF reading.fault = 0 /\ OverTemp(reading, max_temp) THEN "OVER_TEMP"
    ELSE IF StaleReading(reading, t) THEN "STALE"
    ELSE "NONE"

SetSafetyState(s) ==
    /\ s_ssr_duty' = s.duty
    /\ ssr_level' = s.level
    /\ s_ssr_window_start_ms' = s.window_start
    /\ event_bits' = s.bits

(***************************************************************************)
(* Firing history                                                          *)
(***************************************************************************)
\* memset(&s_current, 0, ...)
EmptyRecord == [id |-> 0, profile_id |-> "", peak_temp_c |-> 0,
                duration_s |-> 0, outcome |-> "COMPLETE",
                error_code |-> "NONE"]

\* statics of firing_history.c after history_init on an empty file system;
\* records is history.json (newest first), traces the ids with a trace file
InitialHistory == [s_recording |-> FALSE, s_current |-> EmptyRecord,
                   s_next_id |-> 1, s_trace_open |-> FALSE,
                   s_trace_sample_count |-> 0, records |-> <<>>,
                   traces |-> {}]

history_firing_start(h, profile_id) ==
    [h EXCEPT !.s_current = [EmptyRecord EXCEPT !.id = h.s_next_id,
                                                !.profile_id = profile_id],
              !.s_next_id = @ + 1,
              !.s_trace_open = TRUE,
              !.traces = @ \cup {h.s_next_id},
              !.s_trace_sample_count = 0,
              !.s_recording = TRUE]

history_record_temp(h, temp_c) ==
    IF h.s_recording /\ h.s_trace_open
    THEN [h EXCEPT !.s_trace_sample_count = @ + 1,
                   !.s_current.peak_temp_c =
                       IF temp_c > @ THEN temp_c ELSE @]
    ELSE h

history_firing_end(h, outcome, peak_temp, duration_s, error_code) ==
    IF ~h.s_recording THEN h
    ELSE LET cur == [h.s_current EXCEPT
                        !.outcome = outcome,
                        !.peak_temp_c = IF peak_temp > @ THEN peak_temp
                                        ELSE @,
                        !.duration_s = duration_s,
                        !.error_code = error_code]
             loaded == SubSeq(h.records, 1,
                              Min(Len(h.records), HISTORY_MAX_RECORDS - 1))
             recs == <<cur>> \o loaded
         IN [h EXCEPT !.s_current = cur,
                      !.s_trace_open = FALSE,
                      !.s_recording = FALSE,
                      !.traces = IF Len(recs) = HISTORY_MAX_RECORDS
                                 THEN @ \ {recs[Len(recs)].id} ELSE @,
                      !.records = recs]

(***************************************************************************)
(* PID controller and auto-tune                                            *)
(***************************************************************************)
\* pid_reset / pid_init: the part of the controller state kept here
pid_reset == [first_run |-> TRUE]

\* pid_compute: output_min when no time has passed, else a value of
\* [output_min, output_max]
pid_compute(pid, dt_ms, choice) ==
    IF dt_ms <= 0 THEN [pid |-> pid, output |-> 0]
    ELSE [pid |-> [first_run |-> FALSE], output |-> choice]

\* pid_init with all the fields of pid_controller_t; gains and outputs are
\* whole numbers, the output range is given in percent
pid_init(kp, ki, kd, output_min, output_max) ==
    [kp |-> kp, ki |-> ki, kd |-> kd,
     output_min |-> output_min, output_max |-> output_max,
     integral |-> 0, prev_error |-> 0, first_run |-> TRUE]

\* pid_reset on all the fields of pid_controller_t
PidReset(pid) ==
    [pid EXCEPT !.integral = 0, !.prev_error = 0, !.first_run = TRUE]

\* the quotient of a float division, rounded towards zero
Quot(a, b) == IF (a < 0) = (b < 0) THEN Abs(a) \div Abs(b)
              ELSE 0 - (Abs(a) \div Abs(b))

\* an output that is not clamped
PidNoClamp(output, output_min, output_max) == output

\* pid_compute: clamp of the output
PidClamp(output, output_min, output_max) ==
    IF output > output_max THEN output_max
    ELSE IF output < output_min THEN output_min
    ELSE output

\* an integral that is never unwound
PidKeepIntegral(integral, error, dt_s, output, output_min, output_max) ==
    integral

\* pid_compute: anti-windup; the integral after the step is taken back by
\* error * dt_s when the output is clamped and the error pushes further
PidUnwind(integral, error, dt_s, output, output_min, output_max) ==
    IF output > output_max
    THEN (IF error > 0 THEN integral - error * dt_s ELSE integral)
    ELSE IF output < output_min
    THEN (IF error < 0 THEN integral - error * dt_s ELSE integral)
    ELSE integral

\* pid_compute on all the fields of pid_controller_t
PidCompute(pid, setpoint, measured, dt_s) ==
    IF dt_s <= 0 THEN [pid |-> pid, output |-> pid.output_min]
    ELSE LET error == setpoint - measured
             p_term == pid.kp * error
             integral == pid.integral + error * dt_s
             i_term == pid.ki * integral
             d_term == IF pid.first_run THEN 0
                       ELSE Quot(pid.kd * (error - pid.prev_error), dt_s)
             output == p_term + i_term + d_term
             kept == PidUnwind(integral, error, dt_s, output,
                               pid.output_min, pid.output_max)
         IN [pid |-> [pid EXCEPT !.integral = kept,
                                 !.prev_error = error,
                                 !.first_run = FALSE],
             output |-> PidClamp(output, pid.output_min, pid.output_max)]

\* the "pid" namespace of the non-volatile storage when nothing was saved
NoGains == [kp |-> <<>>, ki |-> <<>>, kd |-> <<>>]

\* (int32_t)(k * 10000.0f) of a gain in millionths: the product is cut to
\* a whole number (the gains are never negative)
GainToStored(k) == k \div (GAIN_ONE \div GAIN_SCALE)

\* val / 10000.0f in millionths
StoredToGain(val) == val * (GAIN_ONE \div GAIN_SCALE)

\* pid_save_gains: the three gains times 10000 as 32-bit integers; nothing
\* is written when the namespace cannot be opened
pid_save_gains(nvs, kp, ki, kd, nvs_ok) ==
    IF ~nvs_ok THEN [err |-> "ESP_FAIL", nvs |-> nvs]
    ELSE [err |-> "ESP_OK",
          nvs |-> [kp |-> <<GainToStored(kp)>>, ki |-> <<GainToStored(ki)>>,
                   kd |-> <<GainToStored(kd)>>]]

\* pid_load_gains: each stored integer over 10000, or the default of a gain
\* that is not stored; all defaults when the namespace cannot be opened
pid_load_gains(nvs, nvs_ok) ==
    IF ~nvs_ok
    THEN [err |-> "ESP_ERR_NVS_NOT_FOUND",
          kp |-> DEFAULT_KP, ki |-> DEFAULT_KI, kd |-> DEFAULT_KD]
    ELSE [err |-> "ESP_OK",
          kp |-> IF nvs.kp # <<>> THEN StoredToGain(nvs.kp[1])
                 ELSE DEFAULT_KP,
          ki |-> IF nvs.ki # <<>> THEN StoredToGain(nvs.ki[1])
                 ELSE DEFAULT_KI,
          kd |-> IF nvs.kd # <<>> THEN StoredToGain(nvs.kd[1])
                 ELSE DEFAULT_KD]

\* the Ziegler-Nichols gains pid_autotune_update computes from the mean
\* amplitude (tenths of a degree) and the mean period (seconds), in
\* millionths: Ku = 4 / (pi a), Kp = 0.6 Ku, Ki = 1.2 Ku / Pu,
\* Kd = 0.075 Ku Pu
AutotuneGains(avg_amplitude, avg_period) ==
    LET ku == (10 * FOUR_OVER_PI) \div avg_amplitude
        pu == avg_period
    IN [kp_result |-> (6 * ku) \div 10,
        ki_result |-> (12 * ku) \div (10 * pu),
        kd_result |-> ((3 * ku) \div 40) * pu]

\* the zero-initialised static s_autotune
InitialAutotune == [state |-> "IDLE", setpoint |-> 0, hysteresis |-> 0,
                    cycles_done |-> 0, half_cycles |-> 0,
                    relay_on |-> FALSE, above_setpoint |-> FALSE,
                    start_time_ms |-> 0]

AUTOTUNE_CYCLES_NEEDED == 5

pid_autotune_start(at, setpoint, hysteresis, t) ==
    IF setpoint <= 0 \/ hysteresis <= 0 THEN at
    ELSE [state |-> "HEATING_TO_SETPOINT", setpoint |-> setpoint,
          hysteresis |-> hysteresis, cycles_done |-> 0, half_cycles |-> 0,
          relay_on |-> TRUE, above_setpoint |-> FALSE, start_time_ms |-> t]

pid_autotune_cancel(at) == [at EXCEPT !.state = "IDLE"]

\* pid_autotune_update; amp_ok tells whether the averaged amplitude of the
\* measured cycles is at least 0.1 degree
pid_autotune_update(at, current_temp, t, amp_ok) ==
    IF at.state \in {"COMPLETE", "FAILED", "IDLE"}
    THEN [at |-> at, output |-> 0, done |-> TRUE]
    ELSE IF (t - at.start_time_ms) > AUTOTUNE_TIMEOUT_MS
    THEN [at |-> [at EXCEPT !.state = "FAILED"], output |-> 0, done |-> TRUE]
    ELSE IF at.state = "HEATING_TO_SETPOINT"
    THEN [at |-> IF current_temp >= at.setpoint - at.hysteresis
                 THEN [at EXCEPT !.state = "RELAY_CYCLING",
                                 !.relay_on = FALSE,
                                 !.above_setpoint = TRUE]
                 ELSE at,
          output |-> DUTY_ONE, done |-> FALSE]
    ELSE LET now_above == current_temp > at.setpoint
             crossed == now_above # at.above_setpoint
             full == crossed /\ at.half_cycles + 1 >= 2
             a1 == IF ~crossed THEN at
                   ELSE IF ~full
                   THEN [at EXCEPT !.half_cycles = @ + 1,
                                   !.above_setpoint = now_above]
                   ELSE [at EXCEPT !.half_cycles = 0,
                                   !.above_setpoint = now_above,
                                   !.cycles_done = @ + 1]
             finished == full /\ a1.cycles_done >= AUTOTUNE_CYCLES_NEEDED
             relay == IF current_temp < at.setpoint - at.hysteresis THEN TRUE
                      ELSE IF current_temp > at.setpoint + at.hysteresis
                      THEN FALSE ELSE a1.relay_on
         IN IF finished
            THEN [at |-> [a1 EXCEPT !.state = IF amp_ok THEN "COMPLETE"
                                               ELSE "FAILED"],
                  output |-> 0, done |-> TRUE]
            ELSE [at |-> [a1 EXCEPT !.relay_on = relay],
                  output |-> IF relay THEN DUTY_ONE ELSE 0, done |-> FALSE]

pid_autotune_is_complete(at) == at.state = "COMPLETE"

(***************************************************************************)
(* Firing engine                                                           *)
(***************************************************************************)
ZeroSegment == [ramp_rate |-> 0, target_temp |-> 0, hold_time |-> 0]

EmptyProfile == [id |-> "", segment_count |-> 0, segments |-> <<>>,
                 estimated_duration |-> 0]

\* s_active_profile.segments[idx]; slots past the profile's segments are
\* zero
Seg(profile, idx) ==
    IF idx + 1 \in DOMAIN profile.segments THEN profile.segments[idx + 1]
    ELSE ZeroSegment

\* profiles a Start command may carry
HoldProfile == [id |-> "hold", segment_count |-> 2,
                segments |-> <<[ramp_rate |-> 100, target_temp |-> 20,
                                hold_time |-> 0],
                               [ramp_rate |-> -50, target_temp |-> 10,
                                hold_time |-> 1]>>,
                estimated_duration |-> 0]

\* a profile whose first hold at room temperature lasts a minute
TimedProfile == [id |-> "timed", segment_count |-> 2,
                 segments |-> <<[ramp_rate |-> 100, target_temp |-> 20,
                                 hold_time |-> 1],
                                [ramp_rate |-> 100, target_temp |-> 600,
                                 hold_time |-> 1]>>,
                 estimated_duration |-> 0]

\* a one-segment profile with a one-minute hold far above room temperature
FarProfile == [id |-> "far", segment_count |-> 1,
               segments |-> <<[ramp_rate |-> 100, target_temp |-> 600,
                               hold_time |-> 1]>>,
               estimated_duration |-> 0]

\* a one-segment profile with a one-minute hold at room temperature
SoakProfile == [id |-> "soak", segment_count |-> 1,
                segments |-> <<[ramp_rate |-> 100, target_temp |-> 20,
                                hold_time |-> 1]>>,
                estimated_duration |-> 0]

RampProfile == [id |-> "ramp", segment_count |-> 1,
                segments |-> <<[ramp_rate |-> 150, target_temp |-> 600,
                                hold_time |-> 10]>>,
                estimated_duration |-> 1]

Cmd(type, profile, delay_minutes, setpoint, hysteresis) ==
    [type |-> type, profile |-> profile, delay_minutes |-> delay_minutes,
     setpoint |-> setpoint, hysteresis |-> hysteresis]

\* commands sent to the inbox
Commands ==
    { Cmd("START", HoldProfile, 0, 0, 0),
      Cmd("START", RampProfile, 0, 0, 0),
      Cmd("START", RampProfile, 1, 0, 0),
      Cmd("STOP", EmptyProfile, 0, 0, 0),
      Cmd("PAUSE", EmptyProfile, 0, 0, 0),
      Cmd("RESUME", EmptyProfile, 0, 0, 0),
      Cmd("SKIP_SEGMENT", EmptyProfile, 0, 0, 0),
      Cmd("AUTOTUNE_START", EmptyProfile, 0, 500, 5),
      Cmd("AUTOTUNE_STOP", EmptyProfile, 0, 0, 0) }

\* a profile that starts with a cooling segment
CoolProfile == [id |-> "cool", segment_count |-> 1,
                segments |-> <<[ramp_rate |-> -50, target_temp |-> 10,
                                hold_time |-> 1]>>,
                estimated_duration |-> 0]

\* commands sent to the inbox in SpecGuard
GuardCommands ==
    { Cmd("START", RampProfile, 0, 0, 0),
      Cmd("START", CoolProfile, 0, 0, 0),
      Cmd("PAUSE", EmptyProfile, 0, 0, 0),
      Cmd("RESUME", EmptyProfile, 0, 0, 0) }

\* commands sent to the inbox in SpecHold
HoldCommands ==
    { Cmd("START", HoldProfile, 0, 0, 0),
      Cmd("START", TimedProfile, 0, 0, 0),
      Cmd("START", FarProfile, 0, 0, 0),
      Cmd("START", SoakProfile, 0, 0, 0),
      Cmd("STOP", EmptyProfile, 0, 0, 0),
      Cmd("PAUSE", EmptyProfile, 0, 0, 0),
      Cmd("SKIP_SEGMENT", EmptyProfile, 0, 0, 0) }

\* a two-segment profile whose first target is far above room temperature
StepProfile == [id |-> "step", segment_count |-> 2,
                segments |-> <<[ramp_rate |-> 100, target_temp |-> 600,
                                hold_time |-> 1],
                               [ramp_rate |-> 100, target_temp |-> 700,
                                hold_time |-> 1]>>,
                estimated_duration |-> 0]

\* commands sent to the inbox in SpecAutotune: auto-tune requests with a
\* setpoint under and over the ceiling of 1300 degrees, with a setpoint or
\* a hysteresis of 0, and the commands of a firing
AutotuneCommands ==
    { Cmd("AUTOTUNE_START", EmptyProfile, 0, 500, 5),
      Cmd("AUTOTUNE_START", EmptyProfile, 0, 1350, 5),
      Cmd("AUTOTUNE_START", EmptyProfile, 0, 500, 0),
      Cmd("AUTOTUNE_START", EmptyProfile, 0, 0, 5),
      Cmd("AUTOTUNE_STOP", EmptyProfile, 0, 0, 0),
      Cmd("START", StepProfile, 0, 0, 0),
      Cmd("PAUSE", EmptyProfile, 0, 0, 0),
      Cmd("RESUME", EmptyProfile, 0, 0, 0) }

\* commands sent to the inbox in SpecDelay
DelayCommands ==
    { Cmd("START", SoakProfile, 0, 0, 0),
      Cmd("START", RampProfile, 1, 0, 0),
      Cmd("START", StepProfile, 1, 0, 0),
      Cmd("STOP", EmptyProfile, 0, 0, 0),
      Cmd("PAUSE", EmptyProfile, 0, 0, 0),
      Cmd("RESUME", EmptyProfile, 0, 0, 0),
      Cmd("SKIP_SEGMENT", EmptyProfile, 0, 0, 0) }

\* firing_engine_init: memset of s_progress, status idle
InitialProgress == [is_active |-> FALSE, status |-> "IDLE",
                    current_temp |-> 0, target_temp |-> 0,
                    current_segment |-> 0, total_segments |-> 0,
                    elapsed_time |-> 0, estimated_remaining |-> 0,
                    profile_id |-> ""]

\* statics of firing_engine.c and the locals of firing_task when the task
\* starts; target_temp is kept in thousandths of a degree
InitialEngine == [s_progress |-> InitialProgress,
                  s_active_profile |-> EmptyProfile,
                  s_segment_start_time_ms |-> 0,
                  s_segment_start_temp |-> 0,
                  s_segment_hold_start_time_ms |-> 0,
                  s_holding |-> FALSE,
                  h_at_target_seen |-> FALSE,
                  h_unheld_advances |-> {},
                  s_delay_start_end_ms |-> 0,
                  s_delay_active |-> FALSE,
                  s_check_start_temp |-> 0,
                  s_check_start_time_ms |-> 0,
                  s_last_history_sample_ms |-> 0,
                  s_last_elem_save_ms |-> 0,
                  s_element_on_s |-> 0,
                  nvs_elem_hrs |-> 0,
                  s_last_error_code |-> "NONE",
                  s_pid |-> pid_reset,
                  s_autotune |-> InitialAutotune,
                  last_compute_ms |-> BootTimeMs]

(* The code of firing_task works on a machine m = [fe, hist, sf]: the      *)
(* engine statics, the history statics and the safety state.               *)
SetSsr(m, duty, t) == [m EXCEPT !.sf = safety_set_ssr(@, duty, t)]

start_segment(m, segment_idx, current_temp, t) ==
    [m EXCEPT !.fe.s_segment_start_time_ms = t,
              !.fe.s_segment_start_temp = current_temp,
              !.fe.s_holding = FALSE,
              !.fe.h_at_target_seen = FALSE,
              !.fe.s_segment_hold_start_time_ms = 0]

do_stop(m, t) ==
    [SetSsr(m, 0, t) EXCEPT !.fe.s_pid = pid_reset,
                            !.fe.s_progress.is_active = FALSE,
                            !.fe.s_progress.status = "IDLE"]

\* status of a segment entered: heating unless its ramp is negative
RampStatus(seg) == IF seg.ramp_rate >= 0 THEN "HEATING" ELSE "COOLING"

\* the steps shared by an immediate Start and the expiry of a start delay
BeginFiring(m, cur_temp, t) ==
    [start_segment(m, 0, cur_temp, t) EXCEPT
        !.fe.s_pid = pid_reset,
        !.fe.s_check_start_temp = cur_temp,
        !.fe.s_check_start_time_ms = t,
        !.fe.s_last_history_sample_ms = t,
        !.hist = history_firing_start(@, m.fe.s_active_profile.id)]

\* case FIRING_CMD_START
CmdStart(m, cmd, rd, st, t) ==
    LET cur_temp == rd.temperature_c + st.tc_offset_c
        m1 == [m EXCEPT !.fe.s_active_profile = cmd.profile,
                        !.fe.h_at_target_seen = FALSE,
                        !.fe.s_delay_active = FALSE]
        prog(status) == [m1.fe.s_progress EXCEPT
                            !.is_active = TRUE,
                            !.status = status,
                            !.profile_id = cmd.profile.id,
                            !.current_segment = 0,
                            !.total_segments = cmd.profile.segment_count,
                            !.elapsed_time = 0]
        m2 == IF cmd.delay_minutes > 0
              THEN [m1 EXCEPT !.fe.s_delay_start_end_ms =
                                  t + cmd.delay_minutes * 60 * 1000,
                              !.fe.s_delay_active = TRUE,
                              !.fe.s_progress = prog("IDLE")]
              ELSE [BeginFiring(m1, cur_temp, t) EXCEPT
                              !.fe.s_progress = prog("HEATING")]
    IN [m2 EXCEPT !.fe.s_last_error_code = "NONE"]

\* a Stop that leaves the history recording open
CmdStopKeepsRecording(m, t) ==
    do_stop([m EXCEPT !.fe.s_delay_active = FALSE], t)

\* case FIRING_CMD_STOP
CmdStop(m, t) ==
    LET p == m.fe.s_progress
        m1 == IF p.is_active
              THEN [m EXCEPT !.hist = history_firing_end(@, "ABORTED",
                                 p.current_temp, p.elapsed_time, "NONE")]
              ELSE m
    IN do_stop([m1 EXCEPT !.fe.s_delay_active = FALSE], t)

\* case FIRING_CMD_PAUSE
CmdPause(m, t) ==
    IF m.fe.s_progress.is_active /\ m.fe.s_progress.status # "PAUSED"
    THEN SetSsr([m EXCEPT !.fe.s_progress.status = "PAUSED"], 0, t)
    ELSE m

\* case FIRING_CMD_RESUME
CmdResume(m) ==
    IF m.fe.s_progress.status = "PAUSED"
    THEN [m EXCEPT !.fe.s_progress.status =
                       IF m.fe.s_holding THEN "HOLDING" ELSE "HEATING"]
    ELSE m

\* end of a firing that ran to completion (last segment skipped or held)
FinishFiring(m, t) ==
    LET p == m.fe.s_progress
    IN [SetSsr(m, 0, t) EXCEPT
           !.fe.s_progress.is_active = FALSE,
           !.fe.s_progress.status = "COMPLETE",
           !.hist = history_firing_end(@, "COMPLETE", p.current_temp,
                                       p.elapsed_time, "NONE")]

SetFiringComplete(m) ==
    [m EXCEPT !.sf.bits = @ \cup {SAFETY_BIT_FIRING_COMPLETE}]

\* history: a segment is left (for the next one, or for the end of the
\* firing); cause is recorded if the segment was never seen at its target
NoteAdvance(m, cause) ==
    IF m.fe.h_at_target_seen THEN m
    ELSE [m EXCEPT !.fe.h_unheld_advances = @ \cup {cause}]

\* case FIRING_CMD_SKIP_SEGMENT
CmdSkipSegment(m, t) ==
    LET p == m.fe.s_progress
        next == p.current_segment + 1
        n == NoteAdvance(m, "SKIP_SEGMENT")
    IN IF p.is_active /\ next < p.total_segments
       THEN [start_segment(n, next, p.current_temp, t) EXCEPT
                !.fe.s_progress.current_segment = next,
                !.fe.s_progress.status =
                    RampStatus(Seg(m.fe.s_active_profile, next))]
       ELSE IF p.is_active
       THEN SetFiringComplete(FinishFiring(n, t))
       ELSE m

\* case FIRING_CMD_AUTOTUNE_START
CmdAutotuneStart(m, cmd, t) ==
    [m EXCEPT !.fe.s_autotune =
                  pid_autotune_start(@, cmd.setpoint, cmd.hysteresis, t),
              !.fe.s_progress.is_active = TRUE,
              !.fe.s_progress.status = "AUTOTUNE",
              !.fe.s_progress.elapsed_time = 0]

\* case FIRING_CMD_AUTOTUNE_STOP
CmdAutotuneStop(m, t) ==
    do_stop([m EXCEPT !.fe.s_autotune = pid_autotune_cancel(@)], t)

\* the switch on cmd.type
ProcessCmd(m, cmd, rd, st, t) ==
    CASE cmd.type = "START" -> CmdStart(m, cmd, rd, st, t)
      [] cmd.type = "STOP" -> CmdStop(m, t)
      [] cmd.type = "PAUSE" -> CmdPause(m, t)
      [] cmd.type = "RESUME" -> CmdResume(m)
      [] cmd.type = "SKIP_SEGMENT" -> CmdSkipSegment(m, t)
      [] cmd.type = "AUTOTUNE_START" -> CmdAutotuneStart(m, cmd, t)
      [] cmd.type = "AUTOTUNE_STOP" -> CmdAutotuneStop(m, t)

\* while (xQueueReceive(...) == pdTRUE): the inbox is emptied in order
RECURSIVE DrainCommands(_, _, _, _, _)
DrainCommands(m, queue, rd, st, t) ==
    IF queue = <<>> THEN m
    ELSE DrainCommands(ProcessCmd(m, Head(queue), rd, st, t), Tail(queue),
                       rd, st, t)

\* the settings storage before anything was saved
NoSettings == [max_temp |-> <<>>]

\* firing_engine_init: the defaults, overridden by what the storage holds
LoadSettings(stored) ==
    [max_safe_temp |-> IF stored.max_temp # <<>> THEN stored.max_temp[1]
                       ELSE DEFAULT_MAX_SAFE_TEMP,
     tc_offset_c |-> 0]

\* a variant of the clamp below that keeps the value as it is
KeepSetting(max_safe_temp) == max_safe_temp

\* firing_engine_set_settings: the clamp of max_safe_temp
ClampSetting(max_safe_temp) ==
    IF max_safe_temp > SETTINGS_MAX_TEMP_C THEN SETTINGS_MAX_TEMP_C
    ELSE IF max_safe_temp < SETTINGS_MIN_TEMP_C THEN SETTINGS_MIN_TEMP_C
    ELSE max_safe_temp

\* firing_engine_set_settings: the clamped copy becomes the settings, the
\* supervisor's ceiling follows it, and the copy is stored unless the
\* storage cannot be opened (whole degrees: (int32_t) keeps the value)
firing_engine_set_settings(settings, stored, nvs_ok) ==
    LET safe == [settings EXCEPT
                    !.max_safe_temp = ClampSetting(settings.max_safe_temp)]
    IN [s_settings |-> safe,
        s_max_safe_temp |-> ClampMaxTemp(safe.max_safe_temp),
        nvs_settings |-> IF nvs_ok THEN [max_temp |-> <<safe.max_safe_temp>>]
                         ELSE stored,
        err |-> IF nvs_ok THEN "ESP_OK" ELSE "ESP_FAIL"]

\* a profile as it is stored: the id and the segments in their order
StoredProfile(id, segments) ==
    [id |-> id, segment_count |-> Len(segments), segments |-> segments]

\* make_nvs_key: the first 15 characters of the id, every character that
\* is no letter, digit or underscore replaced by an underscore
make_nvs_key(id) ==
    [i \in 1..Min(Len(id), NVS_KEY_LEN) |->
        IF id[i] \in Letters \/ (\E d \in 1..Len(Digits) : Digits[d] = id[i])
           \/ id[i] = "_"
        THEN id[i] ELSE "_"]

\* nvs_set_blob on the profile storage: keys to profiles
SetBlob(blobs, key, profile) ==
    [k \in DOMAIN blobs \cup {key} |->
        IF k = key THEN profile ELSE blobs[k]]

\* nvs_erase_key on the profile storage
EraseKey(blobs, key) == [k \in DOMAIN blobs \ {key} |-> blobs[k]]

\* a variant of firing_engine_save_profile that appends to a full index
SaveProfileUnbounded(ids, blobs, profile, nvs_ok) ==
    [err |-> "ESP_OK",
     blobs |-> SetBlob(blobs, make_nvs_key(profile.id), profile),
     ids |-> IF \E i \in 1..Len(ids) : ids[i] = profile.id THEN ids
             ELSE Append(ids, profile.id)]

\* firing_engine_save_profile: the profile is stored under its key; its id
\* is appended to the index unless it is there or the index is full
firing_engine_save_profile(ids, blobs, profile, nvs_ok) ==
    IF ~nvs_ok THEN [err |-> "ESP_FAIL", blobs |-> blobs, ids |-> ids]
    ELSE LET count == Len(ids)
             found == \E i \in 1..count : ids[i] = profile.id
         IN [err |-> "ESP_OK",
             blobs |-> SetBlob(blobs, make_nvs_key(profile.id), profile),
             ids |-> IF ~found /\ count < FIRING_MAX_PROFILES
                     THEN Append(ids, profile.id) ELSE ids]

(***************************************************************************)
(* Cone table                                                              *)
(***************************************************************************)
\* s_cone_table: name and end temperature at slow, medium and fast speed
s_cone_table ==
    << <<"022", <<586, 590, 605>> >>,  <<"021", <<600, 605, 616>> >>,
       <<"020", <<626, 634, 638>> >>,  <<"019", <<656, 671, 678>> >>,
       <<"018", <<686, 698, 715>> >>,  <<"017", <<704, 715, 736>> >>,
       <<"016", <<742, 748, 769>> >>,  <<"015", <<751, 764, 788>> >>,
       <<"014", <<757, 762, 807>> >>,  <<"013", <<807, 815, 837>> >>,
       <<"012", <<843, 853, 861>> >>,  <<"011", <<857, 867, 875>> >>,
       <<"010", <<891, 894, 903>> >>,  <<"09", <<917, 923, 928>> >>,
       <<"08", <<945, 955, 983>> >>,   <<"07", <<973, 984, 1008>> >>,
       <<"06", <<991, 999, 1023>> >>,  <<"05.5", <<1011, 1020, 1043>> >>,
       <<"05", <<1031, 1046, 1066>> >>, <<"04", <<1050, 1060, 1083>> >>,
       <<"03", <<1086, 1101, 1115>> >>, <<"02", <<1101, 1120, 1138>> >>,
       <<"01", <<1117, 1137, 1154>> >>, <<"1", <<1136, 1154, 1162>> >>,
       <<"2", <<1142, 1162, 1173>> >>,  <<"3", <<1152, 1168, 1181>> >>,
       <<"4", <<1162, 1182, 1196>> >>,  <<"5", <<1177, 1196, 1207>> >>,
       <<"6", <<1201, 1222, 1240>> >>,  <<"7", <<1215, 1239, 1255>> >>,
       <<"8", <<1236, 1252, 1274>> >>,  <<"9", <<1260, 1280, 1285>> >>,
       <<"10", <<1285, 1305, 1315>> >>, <<"11", <<1294, 1315, 1326>> >>,
       <<"12", <<1306, 1326, 1355>> >>, <<"13", <<1321, 1348, 1380>> >>,
       <<"14", <<1388, 1395, 1410>> >> >>

CONE_COUNT == Len(s_cone_table)

\* cone ids (CONE_022 is 0) and speeds (slow 0, medium 1, fast 2)
ConeIds == 0..(CONE_COUNT - 1)
ConeSpeeds == 0..2

\* s_speed_ramp, degrees an hour
s_speed_ramp == <<60, 150, 300>>

cone_target_temp_c(cone, speed) ==
    IF cone < 0 \/ cone >= CONE_COUNT THEN 0
    ELSE s_cone_table[cone + 1][2][speed + 1]

\* the estimate of cone_fire_generate is summed in minutes; the model sums
\* it in 1200ths of a minute, a unit every ramp rate of a cone profile
\* divides an hour's worth of, so that the sum is exact
MinuteParts == 1200

\* minutes (in parts) of the first n segments after temperature cur_temp
RECURSIVE ConeMinutes(_, _, _)
ConeMinutes(segments, i, cur_temp) ==
    IF i > Len(segments) THEN 0
    ELSE LET seg == segments[i]
             diff == seg.target_temp - cur_temp
         IN (IF Abs(seg.ramp_rate) > 0
             THEN (Abs(diff) * 60 * MinuteParts) \div Abs(seg.ramp_rate)
             ELSE 0)
            + seg.hold_time * MinuteParts
            + ConeMinutes(segments, i + 1, seg.target_temp)

\* cone_fire_generate for a valid speed: the segments in their order, the
\* cached maximum and the estimated duration (ids, names and description
\* are texts the profile carries along)
cone_fire_generate(cone, speed, preheat, slow_cool) ==
    IF cone < 0 \/ cone >= CONE_COUNT
    THEN [err |-> "ESP_ERR_INVALID_ARG", profile |-> <<>>]
    ELSE LET target_temp == cone_target_temp_c(cone, speed)
             ramp_rate == s_speed_ramp[speed + 1]
             segments ==
                (IF preheat
                 THEN <<[ramp_rate |-> 80, target_temp |-> 120,
                         hold_time |-> 30]>>
                 ELSE <<>>)
                \o <<[ramp_rate |-> 60, target_temp |-> 220,
                       hold_time |-> 0],
                     [ramp_rate |-> 100, target_temp |-> 600,
                       hold_time |-> 0],
                     [ramp_rate |-> ramp_rate, target_temp |-> target_temp,
                       hold_time |-> 10]>>
                \o (IF slow_cool /\ target_temp > 650
                    THEN <<[ramp_rate |-> -150, target_temp |-> 650,
                            hold_time |-> 0],
                           [ramp_rate |-> -50, target_temp |-> 500,
                            hold_time |-> 0]>>
                    ELSE <<>>)
         IN [err |-> "ESP_OK",
             profile |-> <<[segment_count |-> Len(segments),
                            segments |-> segments,
                            max_temp |-> target_temp,
                            estimated_duration |->
                                ConeMinutes(segments, 1, 20)
                                    \div MinuteParts]>>]

\* the bodies posted to the profile endpoint in SpecIntake: with and
\* without an id, without a "segments" member (<<>>), and with an array of
\* no, one and 17 segments
PostedSegments ==
    {<<>>,
     <<[ramp_rate |-> 150, target_temp |-> 600, hold_time |-> 10]>>,
     [i \in 1..LongSegmentCount |->
         [ramp_rate |-> 100, target_temp |-> 100 * i, hold_time |-> 0]]}

PostBodies ==
    [id : {<<>>, IdDash, IdBisque04},
     segments : {<<>>} \cup {<<s>> : s \in PostedSegments}]

\* handle_post_profile: the profile is built from the members of the body
\* (segment_count stays 0 without a "segments" array and is cut to 16) and
\* saved unless its id is empty
handle_post_profile(ids, blobs, body, nvs_ok) ==
    LET given == IF body.segments = <<>> THEN <<>> ELSE body.segments[1]
        count == Min(Len(given), FIRING_MAX_SEGMENTS)
        profile == [id |-> body.id, segment_count |-> count,
                    segments |-> SubSeq(given, 1, count),
                    estimated_duration |-> 0]
        r == firing_engine_save_profile(ids, blobs, profile, nvs_ok)
    IN IF body.id = <<>>
       THEN [status |-> 400, blobs |-> blobs, ids |-> ids]
       ELSE [status |-> IF r.err = "ESP_OK" THEN 200 ELSE 500,
             blobs |-> r.blobs, ids |-> r.ids]

\* firing_engine_load_profile: the profile stored under the key of the id
firing_engine_load_profile(blobs, id, nvs_ok) ==
    IF ~nvs_ok THEN [err |-> "ESP_FAIL", profile |-> <<>>]
    ELSE IF make_nvs_key(id) \in DOMAIN blobs
    THEN [err |-> "ESP_OK", profile |-> <<blobs[make_nvs_key(id)]>>]
    ELSE [err |-> "ESP_ERR_NVS_NOT_FOUND", profile |-> <<>>]

\* firing_engine_delete_profile: the key of the id is erased and the first
\* entry of the index that carries the id is removed
firing_engine_delete_profile(ids, blobs, id, nvs_ok) ==
    IF ~nvs_ok THEN [err |-> "ESP_FAIL", blobs |-> blobs, ids |-> ids]
    ELSE [err |-> "ESP_OK",
          blobs |-> EraseKey(blobs, make_nvs_key(id)),
          ids |-> IF \E i \in 1..Len(ids) : ids[i] = id
                  THEN LET i == CHOOSE k \in 1..Len(ids) :
                                   /\ ids[k] = id
                                   /\ \A j \in 1..(k - 1) : ids[j] # id
                       IN SubSeq(ids, 1, i - 1)
                          \o SubSeq(ids, i + 1, Len(ids))
                  ELSE ids]

\* firing_engine_list_profiles: the ids of the index
firing_engine_list_profiles(ids) == {ids[i] : i \in 1..Len(ids)}

\* the history after n firings (fewer than 20) that ran to completion from
\* an empty file system: record n is the newest, every record has its trace
HistoryAfter(n) ==
    [InitialHistory EXCEPT
        !.s_next_id = n + 1,
        !.s_current = IF n = 0 THEN EmptyRecord
                      ELSE [EmptyRecord EXCEPT !.id = n],
        !.records = [i \in 1..n |-> [EmptyRecord EXCEPT !.id = n + 1 - i]],
        !.traces = 1..n]

\* if (safety_is_emergency()): an active firing ends in error
EmergencyBranch(m, t) ==
    LET p == m.fe.s_progress
        code == IF m.fe.s_last_error_code = "NONE" THEN "EMERGENCY_STOP"
                ELSE m.fe.s_last_error_code
        m1 == IF p.is_active
              THEN [m EXCEPT !.fe.s_progress.is_active = FALSE,
                             !.fe.s_progress.status = "ERROR",
                             !.fe.s_last_error_code = code,
                             !.hist = history_firing_end(@, "ERROR",
                                          p.current_temp, p.elapsed_time,
                                          code)]
              ELSE m
    IN SetSsr(m1, 0, t)

\* kiln-not-rising check
NotRisingCheck(m, status, current_temp, t) ==
    IF status = "HEATING" /\ ~m.fe.s_holding
       /\ (t - m.fe.s_check_start_time_ms) >= RISING_CHECK_INTERVAL_MS
    THEN LET m1 == IF current_temp - m.fe.s_check_start_temp
                        < RISING_THRESHOLD_C
                   THEN [m EXCEPT !.fe.s_last_error_code = "NOT_RISING",
                                  !.sf = safety_emergency_stop(@)]
                   ELSE m
         IN [m1 EXCEPT !.fe.s_check_start_temp = current_temp,
                       !.fe.s_check_start_time_ms = t]
    ELSE m

\* actual rate (degrees per hour over the segment so far) above the limit
\* rate_c_hr: rise * 3600000 / elapsed_ms > rate_c_hr
RateAbove(rise, elapsed_ms, rate_c_hr) ==
    rise * 3600 > (rate_c_hr * elapsed_ms) \div 1000

\* a runaway check that does not wait for the first 300 s of a segment
RunawayCheckAtOnce(m, status, seg, current_temp, t) ==
    LET elapsed_ms == t - m.fe.s_segment_start_time_ms
        rise == current_temp - m.fe.s_segment_start_temp
    IN IF status = "HEATING" /\ ~m.fe.s_holding /\ seg.ramp_rate # 0
          /\ elapsed_ms > 0
          /\ RateAbove(rise, elapsed_ms,
                       seg.ramp_rate * RUNAWAY_RATE_MULTIPLIER)
          /\ RateAbove(rise, elapsed_ms, RUNAWAY_MIN_RATE_C_HR)
       THEN [m EXCEPT !.fe.s_last_error_code = "RUNAWAY",
                      !.sf = safety_emergency_stop(@)]
       ELSE m

\* rate-of-rise runaway check
RunawayCheck(m, status, seg, current_temp, t) ==
    LET elapsed_ms == t - m.fe.s_segment_start_time_ms
        rise == current_temp - m.fe.s_segment_start_temp
    IN IF status = "HEATING" /\ ~m.fe.s_holding /\ seg.ramp_rate # 0
          /\ elapsed_ms > RUNAWAY_GRACE_MS
          /\ RateAbove(rise, elapsed_ms,
                       seg.ramp_rate * RUNAWAY_RATE_MULTIPLIER)
          /\ RateAbove(rise, elapsed_ms, RUNAWAY_MIN_RATE_C_HR)
       THEN [m EXCEPT !.fe.s_last_error_code = "RUNAWAY",
                      !.sf = safety_emergency_stop(@)]
       ELSE m

\* dynamic setpoint, in thousandths of a degree
Setpoint(m, seg, t) ==
    IF m.fe.s_holding THEN seg.target_temp * 1000
    ELSE LET elapsed_ms == t - m.fe.s_segment_start_time_ms
             sp == m.fe.s_segment_start_temp * 1000
                   + (seg.ramp_rate * elapsed_ms) \div 3600
             target == seg.target_temp * 1000
         IN IF seg.ramp_rate >= 0
            THEN (IF sp > target THEN target ELSE sp)
            ELSE (IF sp < target THEN target ELSE sp)

\* save_element_hours
save_element_hours(m) == [m EXCEPT !.fe.nvs_elem_hrs = m.fe.s_element_on_s]

\* element-on time
ElementOn(m, output, dt_ms, t) ==
    IF output > 0
    THEN LET m1 == [m EXCEPT !.fe.s_element_on_s = @ + dt_ms \div 1000]
         IN IF (t - m.fe.s_last_elem_save_ms) >= ELEM_SAVE_INTERVAL_MS
            THEN [save_element_hours(m1) EXCEPT !.fe.s_last_elem_save_ms = t]
            ELSE m1
    ELSE m

\* history sample once per minute
HistorySample(m, current_temp, t) ==
    IF (t - m.fe.s_last_history_sample_ms) >= HISTORY_SAMPLE_INTERVAL_MS
    THEN [m EXCEPT !.hist = history_record_temp(@, current_temp),
                   !.fe.s_last_history_sample_ms = t]
    ELSE m

AtTarget(current_temp, setpoint, seg) ==
    /\ Abs(current_temp - seg.target_temp) < 2
    /\ Abs(setpoint - seg.target_temp * 1000) < 500

\* a hold phase that starts whether or not the target is reached
EnterHoldAtOnce(m, at_target, t) ==
    IF ~m.fe.s_holding
    THEN [m EXCEPT !.fe.s_holding = TRUE,
                   !.fe.h_at_target_seen = @ \/ at_target,
                   !.fe.s_segment_hold_start_time_ms = t,
                   !.fe.s_progress.status = "HOLDING"]
    ELSE [m EXCEPT !.fe.h_at_target_seen = @ \/ at_target]

\* start of the hold phase
EnterHold(m, at_target, t) ==
    IF ~m.fe.s_holding /\ at_target
    THEN [m EXCEPT !.fe.s_holding = TRUE,
                   !.fe.h_at_target_seen = TRUE,
                   !.fe.s_segment_hold_start_time_ms = t,
                   !.fe.s_progress.status = "HOLDING"]
    ELSE [m EXCEPT !.fe.h_at_target_seen = @ \/ at_target]

\* a hold that ends when its time has run out, and after a minute when
\* its hold_time is 0
HoldDoneByTime(m, seg, t) ==
    /\ m.fe.s_holding
    /\ t - m.fe.s_segment_hold_start_time_ms >=
          (IF seg.hold_time > 0 THEN seg.hold_time ELSE 1) * 60 * 1000

HoldDone(m, seg, t) ==
    /\ m.fe.s_holding
    /\ seg.hold_time > 0
    /\ t - m.fe.s_segment_hold_start_time_ms >= seg.hold_time * 60 * 1000

\* end of the hold: next segment, or the firing is complete
LeaveHold(m, seg, seg_idx, current_temp, t) ==
    IF ~HoldDone(m, seg, t) THEN m
    ELSE LET next_seg == seg_idx + 1
             n == NoteAdvance(m, "HOLD_DONE")
         IN IF next_seg >= m.fe.s_active_profile.segment_count
            THEN SetFiringComplete(save_element_hours(FinishFiring(n, t)))
            ELSE [start_segment(n, next_seg, current_temp, t) EXCEPT
                     !.fe.s_check_start_temp = current_temp,
                     !.fe.s_check_start_time_ms = t,
                     !.fe.s_progress.current_segment = next_seg,
                     !.fe.s_progress.status =
                         RampStatus(Seg(m.fe.s_active_profile, next_seg))]

\* progress timing at the end of the iteration
ProgressTiming(m, setpoint, dt_ms) ==
    LET elapsed == m.fe.s_progress.elapsed_time + dt_ms \div 1000
        est_total_s == m.fe.s_active_profile.estimated_duration * 60
    IN [m EXCEPT !.fe.s_progress.elapsed_time = elapsed,
                 !.fe.s_progress.target_temp = setpoint,
                 !.fe.s_progress.estimated_remaining =
                     IF est_total_s > 0
                     THEN (IF elapsed < est_total_s
                           THEN est_total_s - elapsed ELSE 0)
                     ELSE @]

\* normal firing: checks, PID, SSR, segment state machine
NormalFiring(m, status, seg_idx, current_temp, dt_ms, t, pid_choice) ==
    LET seg == Seg(m.fe.s_active_profile, seg_idx)
        m1 == NotRisingCheck(m, status, current_temp, t)
        m2 == RunawayCheck(m1, status, seg, current_temp, t)
        setpoint == Setpoint(m2, seg, t)
        pid == pid_compute(m2.fe.s_pid, ClockDelta(dt_ms), pid_choice)
        m3 == SetSsr([m2 EXCEPT !.fe.s_pid = pid.pid], pid.output, t)
        m4 == ElementOn(m3, pid.output, dt_ms, t)
        m5 == HistorySample(m4, current_temp, t)
        m6 == EnterHold(m5, AtTarget(current_temp, setpoint, seg), t)
        m7 == LeaveHold(m6, seg, seg_idx, current_temp, t)
    IN ProgressTiming(m7, setpoint, dt_ms)

\* auto-tune mode
AutotuneStep(m, current_temp, dt_ms, t, amp_ok) ==
    LET r == pid_autotune_update(m.fe.s_autotune, current_temp, t, amp_ok)
        m1 == SetSsr([m EXCEPT !.fe.s_autotune = r.at], r.output, t)
        m2 == [m1 EXCEPT !.fe.s_progress.elapsed_time = @ + dt_ms \div 1000,
                         !.fe.s_progress.target_temp = r.at.setpoint * 1000]
    IN IF r.done
       THEN do_stop(IF pid_autotune_is_complete(r.at)
                    THEN [m2 EXCEPT !.fe.s_pid = pid_reset] ELSE m2, t)
       ELSE m2

\* the iteration from the temperature fetch on
ControlStep(m, rd, st, t, pid_choice, amp_ok) ==
    LET current_temp == rd.temperature_c + st.tc_offset_c
        dt_ms == t - m.fe.last_compute_ms
        m1 == [m EXCEPT !.fe.last_compute_ms = t]
    IN IF safety_is_emergency(m1.sf.bits) THEN EmergencyBranch(m1, t)
       ELSE LET status == m1.fe.s_progress.status
                active == m1.fe.s_progress.is_active
                seg_idx == m1.fe.s_progress.current_segment
                m2 == [m1 EXCEPT !.fe.s_progress.current_temp = current_temp]
            IN IF ~active \/ status \in {"PAUSED", "IDLE", "COMPLETE", "ERROR"}
               THEN (IF status # "PAUSED" THEN SetSsr(m2, 0, t) ELSE m2)
               ELSE IF status = "AUTOTUNE"
               THEN AutotuneStep(m2, current_temp, dt_ms, t, amp_ok)
               ELSE NormalFiring(m2, status, seg_idx, current_temp, dt_ms,
                                 t, pid_choice)

\* the start delay has run out
DelayExpired(m, rd, st, t) ==
    LET cur_temp == rd.temperature_c + st.tc_offset_c
    IN [BeginFiring([m EXCEPT !.fe.s_delay_active = FALSE], cur_temp, t)
           EXCEPT !.fe.s_progress.status = "HEATING"]

\* one iteration of the loop of firing_task
FiringIteration(m, queue, rd, st, t, pid_choice, amp_ok) ==
    LET m1 == DrainCommands(m, queue, rd, st, t)
    IN IF m1.fe.s_delay_active /\ t < m1.fe.s_delay_start_end_ms
       THEN m1
       ELSE ControlStep(IF m1.fe.s_delay_active
                        THEN DelayExpired(m1, rd, st, t) ELSE m1,
                        rd, st, t, pid_choice, amp_ok)

(***************************************************************************)
(* Actions                                                                 *)
(***************************************************************************)
\* temp_read_task, one iteration (every 250 ms); oks tells whether the bus
\* read may fail, frames are the frames the converter may deliver
TempRead(oks, frames) ==
    /\ ~sched.temp_read
    /\ \E ok \in oks, frame \in frames :
         /\ TempReadStore(ok, frame)
         /\ last_fault_free_ms' = IF ok /\ frame.fault = 0 THEN now
                                  ELSE last_fault_free_ms
    /\ sched' = [sched EXCEPT !.temp_read = TRUE]
    /\ UNCHANGED <<now, s_max_safe_temp, ssrVars, event_bits,
                   supervisorVars, callVars, engineVars>>

TempReadTask == TempRead(BOOLEAN, Frames)

\* the sampler on a sound sensor
SoundTempReadTask == TempRead({TRUE}, SoundFrames)

\* the sampler on a sound sensor in a kiln at 20 or 50 degrees
WarmTempReadTask == TempRead({TRUE}, WarmFrames)

\* the sampler on a sound sensor in a kiln that swings around 500 degrees
SwingTempReadTask == TempRead({TRUE}, SwingFrames)

\* the sampler on a sound sensor in a kiln at room temperature
RoomTempReadTask == TempRead({TRUE}, RoomFrames)

\* safety_task, one iteration (every 500 ms)
SafetyTask ==
    /\ sched.safety = 0
    /\ SetSafetyState(SafetyIteration(SafetyState, s_latest_reading, now,
                                      last_valid_reading_ms, s_max_safe_temp))
    /\ last_valid_reading_ms' =
          IF s_latest_reading.fault # 0 THEN last_valid_reading_ms
          ELSE s_latest_reading.timestamp_ms
    /\ supervisor_trip' =
          IF safety_is_emergency(event_bits) THEN supervisor_trip
          ELSE TripCause(s_latest_reading, now, last_valid_reading_ms,
                         s_max_safe_temp)
    /\ sched' = [sched EXCEPT
                    !.safety = SAFETY_PERIOD_MS \div TEMP_READ_PERIOD_MS]
    /\ UNCHANGED <<now, sensorVars, s_max_safe_temp, callVars, engineVars>>

\* firing_task, one iteration (every second); outputs are the values
\* pid_compute may return
FiringTaskWith(outputs) ==
    /\ sched.firing = 0
    /\ \E pid_choice \in outputs, amp_ok \in BOOLEAN :
         LET m == FiringIteration(
                     [fe |-> fe, hist |-> hist, sf |-> SafetyState],
                     s_cmd_queue, s_latest_reading, s_settings, now,
                     pid_choice, amp_ok)
         IN /\ fe' = m.fe
            /\ hist' = m.hist
            /\ SetSafetyState(m.sf)
    /\ s_cmd_queue' = <<>>
    /\ sched' = [sched EXCEPT
                    !.firing = FIRING_PERIOD_MS \div TEMP_READ_PERIOD_MS]
    /\ UNCHANGED <<now, sensorVars, s_max_safe_temp, supervisorVars,
                   callVars, s_settings, nvs_settings, diag,
                   requests_sent, http_response, calc>>

FiringTask == FiringTaskWith(PidOutputs)

\* firing_task while the controller asks for full power
FullPowerFiringTask == FiringTaskWith({DUTY_ONE})

\* the clock advances by one sampler period once the tasks due in this
\* period have run (vTaskDelayUntil)
Advance(quanta) ==
    /\ sched.temp_read
    /\ sched.safety > 0
    /\ now + TEMP_READ_PERIOD_MS <= BootTimeMs + quanta * TEMP_READ_PERIOD_MS
    /\ now' = now + TEMP_READ_PERIOD_MS
    /\ sched' = [temp_read |-> FALSE, safety |-> sched.safety - 1,
                 firing |-> IF sched.firing > 0 THEN sched.firing - 1
                            ELSE 0]
    /\ UNCHANGED <<sensorVars, s_max_safe_temp, ssrVars, event_bits,
                   supervisorVars, callVars, engineVars>>

AdvanceQuantum == Advance(MaxQuanta)

AdvanceSsrQuantum == Advance(MaxSsrQuanta)

AdvanceEngineQuantum == sched.firing > 0 /\ Advance(MaxEngineQuanta)

\* the last instant of a behaviour of Spec
EngineHorizonMs == BootTimeMs + MaxEngineQuanta * TEMP_READ_PERIOD_MS

\* the time of the next iteration of firing_task
NextTickMs == now + sched.firing * TEMP_READ_PERIOD_MS

\* safety_set_max_temp
SetMaxTemp(inputs) ==
    /\ \E m \in inputs : s_max_safe_temp' = ClampMaxTemp(m)
    /\ UNCHANGED <<now, sensorVars, ssrVars, event_bits,
                   supervisorVars, sched, callVars, engineVars>>

SafetySetMaxTemp == SetMaxTemp(MaxTempInputs)

LowerMaxTemp == SetMaxTemp(LowMaxTempInputs)

\* safety_clear_emergency
SafetyClearEmergency ==
    /\ event_bits' = safety_clear_emergency(event_bits)
    /\ supervisor_trip' = "NONE"
    /\ UNCHANGED <<now, sensorVars, s_max_safe_temp, ssrVars,
                   last_valid_reading_ms, sched, callVars, engineVars>>

(* safety_set_ssr called by task c, statement by statement: the latch is   *)
(* tested first, the duty is stored under the spinlock, the GPIO is        *)
(* written last; another task may run between any two of them.             *)
SetSsrEnter(c) ==
    /\ ssr_pc[c] = "idle"
    /\ \E duty \in DutyInputs :
         IF safety_is_emergency(event_bits)
         THEN /\ ssr_level' = 0
              /\ UNCHANGED <<ssr_pc, ssr_arg>>
         ELSE /\ ssr_pc' = [ssr_pc EXCEPT ![c] = "store"]
              /\ ssr_arg' = [ssr_arg EXCEPT ![c] = ClampDuty(duty)]
              /\ UNCHANGED ssr_level
    /\ UNCHANGED <<now, sensorVars, s_max_safe_temp, s_ssr_duty,
                   s_ssr_window_start_ms, event_bits, supervisorVars,
                   sched, engineVars>>

SetSsrStore(c) ==
    /\ ssr_pc[c] = "store"
    /\ s_ssr_duty' = ssr_arg[c]
    /\ ssr_pc' = [ssr_pc EXCEPT ![c] = "drive"]
    /\ UNCHANGED <<now, sensorVars, s_max_safe_temp, s_ssr_window_start_ms,
                   ssr_level, event_bits, supervisorVars, sched,
                   ssr_arg, engineVars>>

SetSsrDrive(c) ==
    /\ ssr_pc[c] = "drive"
    /\ s_ssr_window_start_ms' = SsrWindowStart(now, s_ssr_window_start_ms)
    /\ ssr_level' = SsrLevel(ssr_arg[c], now, s_ssr_window_start_ms)
    /\ ssr_pc' = [ssr_pc EXCEPT ![c] = "idle"]
    /\ ssr_arg' = [ssr_arg EXCEPT ![c] = 0]
    /\ UNCHANGED <<now, sensorVars, s_max_safe_temp, s_ssr_duty, event_bits,
                   supervisorVars, sched, engineVars>>

\* a task sends a command to the inbox (xQueueSend); a full inbox takes
\* nothing.  Only commands the engine drains before the behaviour ends are
\* sent, and no more than budget of them.
SendCommandWithin(cmd, budget) ==
    /\ Len(s_cmd_queue) < CMD_QUEUE_LEN
    /\ requests_sent < budget
    /\ NextTickMs <= EngineHorizonMs
    /\ s_cmd_queue' = Append(s_cmd_queue, cmd)
    /\ requests_sent' = requests_sent + 1
    /\ UNCHANGED <<now, sensorVars, s_max_safe_temp, ssrVars, event_bits,
                   supervisorVars, sched, callVars, fe, hist,
                   s_settings, nvs_settings, diag, http_response, calc>>

SendCommand(cmd) == SendCommandWithin(cmd, MaxRequests)

SendHoldCommand(cmd) == SendCommandWithin(cmd, MaxHoldRequests)

SendFiringCommand(cmd) == SendCommandWithin(cmd, MaxFiringRequests)

SendGuardCommand(cmd) == SendCommandWithin(cmd, MaxGuardRequests)

SendAutotuneCommand(cmd) == SendCommandWithin(cmd, MaxAutotuneRequests)

SendDutyCommand(cmd) == SendCommandWithin(cmd, MaxDutyRequests)

\* a command sent in the first seconds of a behaviour of SpecDelay
SendDelayCommand(cmd) ==
    /\ Len(s_cmd_queue) < CMD_QUEUE_LEN
    /\ requests_sent < MaxDelayRequests
    /\ NextTickMs <= BootTimeMs + MaxDelayCommandQuanta * TEMP_READ_PERIOD_MS
    /\ s_cmd_queue' = Append(s_cmd_queue, cmd)
    /\ requests_sent' = requests_sent + 1
    /\ UNCHANGED <<now, sensorVars, s_max_safe_temp, ssrVars, event_bits,
                   supervisorVars, sched, callVars, fe, hist,
                   s_settings, nvs_settings, diag, http_response, calc>>

SendRunawayCommand(cmd) == SendCommandWithin(cmd, MaxRunawayRequests)

\* the HTTP handlers that send a command to the inbox
CommandHandlers == {"handle_firing_start", "handle_firing_stop",
                    "handle_firing_pause", "handle_firing_skip_segment",
                    "handle_autotune_start", "handle_autotune_stop"}

\* the commands a handler may build from its request and the progress
HandlerCommands(handler) ==
    CASE handler = "handle_firing_start" ->
             {Cmd("START", HoldProfile, 0, 0, 0)}
      [] handler = "handle_firing_stop" ->
             {Cmd("STOP", EmptyProfile, 0, 0, 0)}
      [] handler = "handle_firing_pause" ->
             {Cmd(IF fe.s_progress.status = "PAUSED" THEN "RESUME"
                  ELSE "PAUSE", EmptyProfile, 0, 0, 0)}
      [] handler = "handle_firing_skip_segment" ->
             {Cmd("SKIP_SEGMENT", EmptyProfile, 0, 0, 0)}
      [] handler = "handle_autotune_start" ->
             {Cmd("AUTOTUNE_START", EmptyProfile, 0, sp, 5) :
                 sp \in AutotuneSetpoints}
      [] handler = "handle_autotune_stop" ->
             {Cmd("AUTOTUNE_STOP", EmptyProfile, 0, 0, 0)}

\* the handler refuses the request before it sends anything
\* (handle_autotune_start: setpoint above the ceiling)
RequestRefused(handler, cmd) ==
    handler = "handle_autotune_start" /\ cmd.setpoint > s_max_safe_temp

\* the handler tests the result of xQueueSend
ChecksQueueSend(handler) == handler = "handle_firing_start"

\* xQueueSend with its 100 ms time-out, on an inbox the engine does not
\* drain in that time: the command is appended if there is room
QueueSend(queue, cmd) ==
    IF Len(queue) < CMD_QUEUE_LEN
    THEN [queue |-> Append(queue, cmd), sent |-> TRUE]
    ELSE [queue |-> queue, sent |-> FALSE]

\* one command request from the handler's entry to its answer
CommandRequest(handler) ==
    /\ requests_sent < MaxInboxRequests
    /\ requests_sent' = requests_sent + 1
    /\ \E cmd \in HandlerCommands(handler) :
         IF RequestRefused(handler, cmd)
         THEN /\ http_response' = [handler |-> handler, ok |-> FALSE]
              /\ UNCHANGED s_cmd_queue
         ELSE LET r == QueueSend(s_cmd_queue, cmd)
              IN /\ s_cmd_queue' = r.queue
                 /\ http_response' =
                       [handler |-> handler,
                        ok |-> ChecksQueueSend(handler) => r.sent]
    /\ UNCHANGED <<now, sensorVars, s_max_safe_temp, ssrVars, event_bits,
                   supervisorVars, sched, callVars, fe, hist,
                   s_settings, nvs_settings, diag, calc>>

AdvanceHoldQuantum == sched.firing > 0 /\ Advance(MaxHoldQuanta)

AdvanceInboxQuantum == Advance(MaxInboxQuanta)

AdvanceRunawayQuantum == sched.firing > 0 /\ Advance(MaxRunawayQuanta)

AdvanceGuardQuantum == sched.firing > 0 /\ Advance(MaxGuardQuanta)

AdvanceDelayQuantum == sched.firing > 0 /\ Advance(MaxDelayQuanta)

AdvanceAutotuneQuantum == sched.firing > 0 /\ Advance(MaxAutotuneQuanta)

AdvanceDutyQuantum == sched.firing > 0 /\ Advance(MaxDutyQuanta)

\* firing_task while the controller asks for the same part of full power
\* at every iteration of a firing
ConstantDutyFiringTask ==
    \E d \in PartDuties : s_ssr_duty \in {0, d} /\ FiringTaskWith({d})

AdvanceSettingsQuantum == Advance(MaxSettingsQuanta)

\* handle_diag_relay up to its vTaskDelay: refused during a firing, else
\* the relay is switched on for the requested time.  Only requests that
\* return before the behaviour ends are made.
DiagRelayOn ==
    /\ diag.pc = "idle"
    /\ requests_sent < MaxRequests
    /\ ~fe.s_progress.is_active
    /\ requests_sent' = requests_sent + 1
    /\ SetSafetyState(safety_set_ssr(SafetyState, DUTY_ONE, now))
    /\ \E duration_s \in DiagDurations :
         /\ now + ClampDiagDuration(duration_s) * 1000 <= EngineHorizonMs
         /\ diag' = [pc |-> "sleep",
                     wake_ms |-> now + ClampDiagDuration(duration_s) * 1000]
    /\ UNCHANGED <<now, sensorVars, s_max_safe_temp, supervisorVars,
                   sched, callVars, fe, hist, s_cmd_queue, s_settings,
                   nvs_settings, http_response, calc>>

\* handle_diag_relay after its vTaskDelay
DiagRelayOff ==
    /\ diag.pc = "sleep"
    /\ now >= diag.wake_ms
    /\ SetSafetyState(safety_set_ssr(SafetyState, 0, now))
    /\ diag' = [pc |-> "idle", wake_ms |-> 0]
    /\ UNCHANGED <<now, sensorVars, s_max_safe_temp, supervisorVars,
                   sched, callVars, fe, hist, s_cmd_queue, s_settings,
                   nvs_settings, requests_sent, http_response, calc>>

(***************************************************************************)
(* Specifications                                                          *)
(***************************************************************************)
\* no library function is called on its own
\* handle_post_settings: the current settings with the members the body
\* carries, handed to firing_engine_set_settings; the answer is ok whatever
\* the storage returned
PostSettings ==
    /\ requests_sent < MaxSettingsRequests
    /\ \E max_temp \in SettingsMaxTemps, tc_off \in SettingsTcOffsets,
          nvs_ok \in BOOLEAN :
         LET settings ==
               [max_safe_temp |-> IF max_temp # <<>> THEN max_temp[1]
                                  ELSE s_settings.max_safe_temp,
                tc_offset_c |-> IF tc_off # <<>> THEN tc_off[1]
                                ELSE s_settings.tc_offset_c]
             r == firing_engine_set_settings(settings, nvs_settings, nvs_ok)
         IN /\ s_settings' = r.s_settings
            /\ s_max_safe_temp' = r.s_max_safe_temp
            /\ nvs_settings' = r.nvs_settings
    /\ requests_sent' = requests_sent + 1
    /\ http_response' = [handler |-> "handle_post_settings", ok |-> TRUE]
    /\ UNCHANGED <<now, sensorVars, ssrVars, event_bits, supervisorVars,
                   sched, callVars, fe, hist, s_cmd_queue, diag, calc>>

NoCalc == [fn |-> "", state |-> <<>>, args |-> <<>>, result |-> <<>>]

\* the variables of the running program
programVars == <<now, sensorVars, s_max_safe_temp, ssrVars, event_bits,
                 supervisorVars, sched, callVars, fe, hist, s_cmd_queue,
                 s_settings, nvs_settings, diag, requests_sent,
                 http_response>>

\* the state when app_main has created the tasks, with the settings
\* storage as it was found: safety_init sets the default ceiling,
\* firing_engine_init loads the settings and app_main hands their
\* max_safe_temp to safety_set_max_temp
ProgramBoot(stored) ==
    /\ now = BootTimeMs
    /\ s_latest_reading = InitialReading
    /\ s_max_safe_temp = ClampMaxTemp(LoadSettings(stored).max_safe_temp)
    /\ s_ssr_duty = 0
    /\ s_ssr_window_start_ms = 0
    /\ ssr_level = 0
    /\ event_bits = {}
    /\ last_valid_reading_ms = BootTimeMs
    /\ supervisor_trip = "NONE"
    /\ last_fault_free_ms = 0
    /\ sched = [temp_read |-> FALSE, safety |-> 0, firing |-> 0]
    /\ ssr_pc = [c \in Callers |-> "idle"]
    /\ ssr_arg = [c \in Callers |-> 0]
    /\ fe = InitialEngine
    /\ hist = InitialHistory
    /\ s_cmd_queue = <<>>
    /\ s_settings = LoadSettings(stored)
    /\ nvs_settings = stored
    /\ diag = [pc |-> "idle", wake_ms |-> 0]
    /\ requests_sent = 0
    /\ http_response = [handler |-> "", ok |-> FALSE]

\* the start with nothing stored
ProgramInit == ProgramBoot(NoSettings)

Init == ProgramInit /\ calc = NoCalc

\* sampler, supervisor, firing engine with its inbox, relay diagnostic
Next ==
    \/ SoundTempReadTask
    \/ SafetyTask
    \/ FiringTask
    \/ AdvanceEngineQuantum
    \/ LowerMaxTemp
    \/ SafetyClearEmergency
    \/ \E cmd \in Commands : SendCommand(cmd)
    \/ DiagRelayOn
    \/ DiagRelayOff

Spec == Init /\ [][Next]_vars

\* sampler and supervisor over the sensor-fault time-out
NextSafety ==
    \/ TempReadTask
    \/ SafetyTask
    \/ AdvanceQuantum
    \/ SafetySetMaxTemp
    \/ SafetyClearEmergency

SpecSafety == Init /\ [][NextSafety]_vars

\* safety_set_ssr running concurrently with the supervisor
NextSsr ==
    \/ TempReadTask
    \/ SafetyTask
    \/ AdvanceSsrQuantum
    \/ SafetySetMaxTemp
    \/ SafetyClearEmergency
    \/ \E c \in Callers : SetSsrEnter(c)
    \/ \E c \in Callers : SetSsrStore(c)
    \/ \E c \in Callers : SetSsrDrive(c)

SpecSsr == Init /\ [][NextSsr]_vars

\* sampler, supervisor and the firing engine with its inbox
NextFiring ==
    \/ SoundTempReadTask
    \/ SafetyTask
    \/ FiringTask
    \/ AdvanceEngineQuantum
    \/ \E cmd \in Commands : SendFiringCommand(cmd)

SpecFiring == Init /\ [][NextFiring]_vars

\* command requests filling the inbox between engine ticks
NextInbox ==
    \/ RoomTempReadTask
    \/ SafetyTask
    \/ FiringTask
    \/ AdvanceInboxQuantum
    \/ \E handler \in CommandHandlers : CommandRequest(handler)

SpecInbox == Init /\ [][NextInbox]_vars

\* a firing at room temperature over a hold of one minute
NextHold ==
    \/ RoomTempReadTask
    \/ SafetyTask
    \/ FullPowerFiringTask
    \/ AdvanceHoldQuantum
    \/ \E cmd \in HoldCommands : SendHoldCommand(cmd)

SpecHold == Init /\ [][NextHold]_vars

\* firings started at once or after a delay of one minute, with commands
\* in the first seconds, at room temperature
NextDelay ==
    \/ RoomTempReadTask
    \/ SafetyTask
    \/ FullPowerFiringTask
    \/ AdvanceDelayQuantum
    \/ \E cmd \in DelayCommands : SendDelayCommand(cmd)

SpecDelay == Init /\ [][NextDelay]_vars

\* auto-tune runs and firings in a kiln that swings around 500 degrees
NextAutotune ==
    \/ SwingTempReadTask
    \/ SafetyTask
    \/ FullPowerFiringTask
    \/ AdvanceAutotuneQuantum
    \/ \E cmd \in AutotuneCommands : SendAutotuneCommand(cmd)

SpecAutotune == Init /\ [][NextAutotune]_vars

\* a firing at room temperature whose controller output stays the same
NextDuty ==
    \/ RoomTempReadTask
    \/ SafetyTask
    \/ ConstantDutyFiringTask
    \/ AdvanceDutyQuantum
    \/ SendDutyCommand(Cmd("START", RampProfile, 0, 0, 0))

SpecDuty == Init /\ [][NextDuty]_vars

\* the arguments of a cone-fire request: every cone (and the two ids next
\* to the table), speed, preheat and slow-cool option
InitCone ==
    /\ ProgramInit
    /\ \E cone \in ConeIds \cup {-1, CONE_COUNT}, speed \in ConeSpeeds,
          preheat \in BOOLEAN, slow_cool \in BOOLEAN :
         calc = [fn |-> "cone_fire_generate",
                 state |-> [calls |-> 0, h_previous |-> <<>>],
                 args |-> <<cone, speed, preheat, slow_cool>>,
                 result |-> <<>>]

\* one call of cone_fire_generate with the arguments of the behaviour;
\* h_previous keeps the result of the call before
ConeFireGenerateCall ==
    /\ calc.state.calls < MaxConeCalls
    /\ LET r == cone_fire_generate(calc.args[1], calc.args[2],
                                   calc.args[3], calc.args[4])
       IN calc' = [calc EXCEPT !.state.calls = @ + 1,
                               !.state.h_previous = calc.result,
                               !.result = <<r.err>> \o r.profile]
    /\ UNCHANGED programVars

SpecCone == InitCone /\ [][ConeFireGenerateCall]_vars

\* an empty profile storage in front of the running program
InitIntake ==
    /\ ProgramInit
    /\ calc = [fn |-> "intake",
               state |-> [ids |-> <<>>, blobs |-> <<>>, calls |-> 0],
               args |-> <<>>, result |-> <<>>]

\* one request handled by handle_post_profile
PostProfileCall ==
    /\ calc.state.calls < MaxIntakeCalls
    /\ \E body \in PostBodies, nvs_ok \in BOOLEAN :
         LET r == handle_post_profile(calc.state.ids, calc.state.blobs,
                                      body, nvs_ok)
         IN calc' = [calc EXCEPT !.state.ids = r.ids,
                                 !.state.blobs = r.blobs,
                                 !.state.calls = @ + 1,
                                 !.args = <<"post", body.id>>,
                                 !.result = <<r.status>>]
    /\ UNCHANGED programVars

\* one request handled by handle_firing_start: the stored profile is
\* loaded and sent to the inbox in a Start command
FiringStartCall ==
    /\ calc.state.calls < MaxIntakeCalls
    /\ NextTickMs <= BootTimeMs + MaxIntakeQuanta * TEMP_READ_PERIOD_MS
    /\ \E id \in {IdDash, IdBisque04} :
         LET r == firing_engine_load_profile(calc.state.blobs, id, TRUE)
             sent == r.err = "ESP_OK" /\ Len(s_cmd_queue) < CMD_QUEUE_LEN
         IN /\ s_cmd_queue' =
                  IF sent
                  THEN Append(s_cmd_queue,
                              Cmd("START", r.profile[1], 0, 0, 0))
                  ELSE s_cmd_queue
            /\ calc' = [calc EXCEPT
                          !.state.calls = @ + 1,
                          !.args = <<"start", id>>,
                          !.result = <<IF sent THEN 200
                                       ELSE IF r.err = "ESP_OK" THEN 500
                                       ELSE 404>>]
    /\ UNCHANGED <<now, sensorVars, s_max_safe_temp, ssrVars, event_bits,
                   supervisorVars, sched, callVars, fe, hist,
                   s_settings, nvs_settings, diag, http_response,
                   requests_sent>>

AdvanceIntakeQuantum == sched.firing > 0 /\ Advance(MaxIntakeQuanta)

\* profiles posted over HTTP, stored, and started by their id
NextIntake ==
    \/ RoomTempReadTask
    \/ SafetyTask
    \/ FullPowerFiringTask
    \/ AdvanceIntakeQuantum
    \/ PostProfileCall
    \/ FiringStartCall

SpecIntake == InitIntake /\ [][NextIntake]_vars

\* a firing at room temperature over the 15 minutes of the not-rising guard
NextGuard ==
    \/ RoomTempReadTask
    \/ SafetyTask
    \/ FullPowerFiringTask
    \/ AdvanceGuardQuantum
    \/ \E cmd \in GuardCommands : SendGuardCommand(cmd)

SpecGuard == Init /\ [][NextGuard]_vars

\* a firing in a kiln whose temperature moves between 20 and 50 degrees,
\* over the first 300 seconds of a segment and a little more
NextRunaway ==
    \/ WarmTempReadTask
    \/ SafetyTask
    \/ FullPowerFiringTask
    \/ AdvanceRunawayQuantum
    \/ \E cmd \in GuardCommands : SendRunawayCommand(cmd)

SpecRunaway == Init /\ [][NextRunaway]_vars

\* the start with the settings storage as an earlier run left it
InitSettings ==
    /\ \E max_temp \in StoredMaxTemps : ProgramBoot([max_temp |-> max_temp])
    /\ calc = NoCalc

\* sampler and supervisor with settings requests
NextSettings ==
    \/ TempReadTask
    \/ SafetyTask
    \/ AdvanceSettingsQuantum
    \/ PostSettings
    \/ SafetyClearEmergency

SpecSettings == InitSettings /\ [][NextSettings]_vars

(***************************************************************************)
(* Library functions called on their own                                   *)
(***************************************************************************)
\* a controller as firing_engine_init and the auto-tune branch of
\* firing_task initialise it: output range 0.0 .. 1.0
InitPid ==
    /\ ProgramInit
    /\ \E kp \in PidKp, ki \in PidKi, kd \in PidKd :
         calc = [fn |-> "pid_compute",
                 state |-> pid_init(kp, ki, kd, 0, DUTY_ONE),
                 args |-> <<>>, result |-> <<>>]

\* one call of pid_compute
PidComputeCall ==
    /\ calc.fn = "pid_compute"
    /\ Abs(calc.state.integral) <= MaxPidIntegral
    /\ \E setpoint \in PidSetpoints, measured \in PidMeasured,
          dt_s \in PidDts :
         LET r == PidCompute(calc.state, setpoint, measured, dt_s)
         IN calc' = [calc EXCEPT !.state = r.pid,
                                 !.args = <<setpoint, measured, dt_s>>,
                                 !.result = r.output]
    /\ UNCHANGED programVars

\* one call of pid_reset
PidResetCall ==
    /\ calc.fn = "pid_compute"
    /\ ~calc.state.first_run
    /\ calc' = [calc EXCEPT !.state = PidReset(@), !.args = <<>>,
                            !.result = <<>>]
    /\ UNCHANGED programVars

NextPid == PidComputeCall \/ PidResetCall

SpecPid == InitPid /\ [][NextPid]_vars

\* the state of one auto-tune run whose relay cycles are done: the measured
\* means, the gains of the running controller, and the storage, which is
\* blank or holds gains saved earlier
InitGains ==
    /\ ProgramInit
    /\ \E avg_amplitude \in AutotuneAmplitudes,
          avg_period \in AutotunePeriods,
          elapsed_min \in AutotuneElapsedMin,
          duty \in {0, DUTY_ONE},
          nvs \in {NoGains,
                   [kp |-> <<20000>>, ki |-> <<100>>, kd |-> <<500000>>]} :
         calc = [fn |-> "pid_gains",
                 state |-> [nvs |-> nvs,
                            pid |-> pid_load_gains(nvs, TRUE),
                            saved |-> "",
                            status |-> "AUTOTUNE",
                            duty |-> duty,
                            h_tuned |-> <<>>],
                 args |-> <<avg_amplitude, avg_period, elapsed_min>>,
                 result |-> <<>>]

\* the cached reading after thermocouple_init, the sampler about to read
\* and a reader (firing task, supervisor, HTTP handler) about to call
\* thermocouple_get_latest
InitSensor ==
    /\ ProgramInit
    /\ calc = [fn |-> "thermocouple",
               state |-> [latest |-> ZeroReading, reading |-> ZeroReading,
                          w_pc |-> 0, out |-> ZeroReading, r_pc |-> 0,
                          mux |-> "", reads |-> 0, copies |-> 0,
                          h_stored |-> {ZeroReading}],
               args |-> <<>>, result |-> <<>>]

\* temp_read_task: thermocouple_read; the bus read fails or delivers a word
SensorRead ==
    /\ calc.fn = "thermocouple"
    /\ calc.state.w_pc = 0
    /\ calc.state.reads < MaxSensorReads
    /\ \E ok \in BOOLEAN, raw \in RawFrames :
         LET t == calc.state.reads + 1
         IN calc' = [calc EXCEPT
                !.state.reads = t,
                !.state.reading =
                    IF ok THEN thermocouple_read_raw(raw, t) ELSE @,
                !.state.w_pc = IF ok THEN 1 ELSE 0,
                !.args = <<ok, raw>>,
                !.result = IF ok THEN <<"ESP_OK">> ELSE <<"ESP_FAIL">>]
    /\ UNCHANGED programVars

\* temp_read_task: s_latest_reading = reading inside the critical section,
\* one field at a step
SensorStore ==
    /\ calc.fn = "thermocouple"
    /\ calc.state.w_pc > 0
    /\ calc.state.mux = "writer" \/ (calc.state.w_pc = 1
                                      /\ MuxFree(calc.state.mux))
    /\ LET f == ReadingFields[calc.state.w_pc]
           last == calc.state.w_pc = Len(ReadingFields)
       IN calc' = [calc EXCEPT
              !.state.latest = [@ EXCEPT ![f] = calc.state.reading[f]],
              !.state.w_pc = IF last THEN 0 ELSE @ + 1,
              !.state.mux = IF last THEN "" ELSE "writer",
              !.state.h_stored = IF last THEN @ \cup {calc.state.reading}
                                 ELSE @]
    /\ UNCHANGED programVars

\* thermocouple_get_latest: *out = s_latest_reading inside the critical
\* section, one field at a step
SensorGetLatest ==
    /\ calc.fn = "thermocouple"
    /\ calc.state.r_pc > 0 \/ calc.state.copies < MaxSensorCopies
    /\ calc.state.mux = "reader" \/ (calc.state.r_pc = 0
                                      /\ MuxFree(calc.state.mux))
    /\ LET f == ReadingFields[calc.state.r_pc + 1]
           last == calc.state.r_pc + 1 = Len(ReadingFields)
       IN calc' = [calc EXCEPT
              !.state.out = [@ EXCEPT ![f] = calc.state.latest[f]],
              !.state.r_pc = IF last THEN 0 ELSE @ + 1,
              !.state.mux = IF last THEN "" ELSE "reader",
              !.state.copies = IF last THEN @ + 1 ELSE @]
    /\ UNCHANGED programVars

NextSensor == SensorRead \/ SensorStore \/ SensorGetLatest

SpecSensor == InitSensor /\ [][NextSensor]_vars

\* the auto-tune run fails at its last step: it has lasted longer than the
\* timeout, or the mean amplitude (tenths of a degree) is under 0.1 degree
AutotuneFails(args) ==
    \/ args[3] * 60 * 1000 > AUTOTUNE_TIMEOUT_MS
    \/ args[1] < 1

\* the last step of an auto-tune run: pid_autotune_update computes the
\* gains, the firing task saves them and initialises the controller with
\* them; a run that fails saves nothing; either way do_stop follows
AutotuneDone ==
    /\ calc.fn = "pid_gains"
    /\ calc.result = <<>>
    /\ IF AutotuneFails(calc.args)
       THEN calc' = [calc EXCEPT !.state.status = "IDLE",
                                 !.state.duty = 0,
                                 !.result = <<"AUTOTUNE_FAILED">>]
       ELSE \E nvs_ok \in BOOLEAN :
              LET g == AutotuneGains(calc.args[1], calc.args[2])
                  s == pid_save_gains(calc.state.nvs, g.kp_result,
                                      g.ki_result, g.kd_result, nvs_ok)
              IN calc' = [calc EXCEPT
                     !.state = [nvs |-> s.nvs,
                                pid |-> [err |-> "ESP_OK",
                                         kp |-> g.kp_result,
                                         ki |-> g.ki_result,
                                         kd |-> g.kd_result],
                                saved |-> s.err,
                                status |-> "IDLE",
                                duty |-> 0,
                                h_tuned |-> <<g>>],
                     !.result = <<"AUTOTUNE_COMPLETE">>]
    /\ UNCHANGED programVars

\* the next start of the firmware: firing_engine_init loads the gains and
\* initialises the controller with them
LoadGainsAtInit ==
    /\ calc.fn = "pid_gains"
    /\ calc.result \in {<<"AUTOTUNE_FAILED">>, <<"AUTOTUNE_COMPLETE">>}
    /\ \E nvs_ok \in BOOLEAN :
         calc' = [calc EXCEPT
                    !.state.pid = pid_load_gains(calc.state.nvs, nvs_ok),
                    !.result = <<"LOADED", nvs_ok>>]
    /\ UNCHANGED programVars

NextGains == AutotuneDone \/ LoadGainsAtInit

SpecGains == InitGains /\ [][NextGains]_vars

\* the profiles saved in SpecStore: one segment list each
NumberedProfile(i) ==
    StoredProfile(NumberedId(i),
                  <<[ramp_rate |-> 100, target_temp |-> 600,
                     hold_time |-> 10]>>)

\* the profile storage after the first n numbered profiles were saved and
\* the history after k firings
InitStore ==
    /\ ProgramInit
    /\ \E n \in StoredCounts, k \in HistoryCounts :
         calc = [fn |-> "store",
                 state |-> [ids |-> [i \in 1..n |-> NumberedId(i)],
                            blobs |-> [key \in {make_nvs_key(NumberedId(i)) :
                                                  i \in 1..n} |->
                                         StoredProfile(key,
                                            NumberedProfile(1).segments)],
                            h_saved |-> [id \in {NumberedId(i) : i \in 1..n}
                                           |-> StoredProfile(id,
                                                NumberedProfile(1).segments)],
                            hist |-> HistoryAfter(k), calls |-> 0],
                 args |-> <<>>, result |-> <<>>]

\* an empty profile storage
InitProfiles ==
    /\ ProgramInit
    /\ calc = [fn |-> "profiles",
               state |-> [ids |-> <<>>, blobs |-> <<>>, h_saved |-> <<>>,
                          hist |-> InitialHistory, calls |-> 0],
               args |-> <<>>, result |-> <<>>]

\* one call of firing_engine_save_profile; h_saved keeps, for every id, the
\* profile last saved under it and not deleted since
SaveProfile(fn, id_set, segment_set, max_calls) ==
    /\ calc.fn = fn
    /\ calc.state.calls < max_calls
    /\ \E id \in id_set, segments \in segment_set, nvs_ok \in BOOLEAN :
         LET profile == StoredProfile(id, segments)
             r == firing_engine_save_profile(calc.state.ids,
                                             calc.state.blobs, profile,
                                             nvs_ok)
         IN calc' = [calc EXCEPT
                       !.state.ids = r.ids,
                       !.state.blobs = r.blobs,
                       !.state.h_saved =
                           IF r.err = "ESP_OK" THEN SetBlob(@, id, profile)
                           ELSE @,
                       !.state.calls = @ + 1,
                       !.args = <<"save", id>>,
                       !.result = <<r.err>>]
    /\ UNCHANGED programVars

\* one call of firing_engine_delete_profile
DeleteProfile(fn, id_set, max_calls) ==
    /\ calc.fn = fn
    /\ calc.state.calls < max_calls
    /\ \E id \in id_set, nvs_ok \in BOOLEAN :
         LET r == firing_engine_delete_profile(calc.state.ids,
                                               calc.state.blobs, id, nvs_ok)
         IN calc' = [calc EXCEPT
                       !.state.ids = r.ids,
                       !.state.blobs = r.blobs,
                       !.state.h_saved =
                           IF r.err = "ESP_OK" THEN EraseKey(@, id) ELSE @,
                       !.state.calls = @ + 1,
                       !.args = <<"delete", id>>,
                       !.result = <<r.err>>]
    /\ UNCHANGED programVars

SaveProfileCall ==
    SaveProfile("store", ProfileIds, {NumberedProfile(1).segments},
                MaxStoreCalls)

DeleteProfileCall == DeleteProfile("store", ProfileIds, MaxStoreCalls)

SaveCopyCall ==
    SaveProfile("profiles", CopyIds, StoredSegments, MaxProfileCalls)

DeleteCopyCall == DeleteProfile("profiles", CopyIds, MaxProfileCalls)

\* one firing from history_firing_start to history_firing_end
RecordFiringCall ==
    /\ calc.fn = "store"
    /\ calc.state.calls < MaxStoreCalls
    /\ \E outcome \in Outcomes :
         calc' = [calc EXCEPT
                    !.state.hist =
                       history_firing_end(
                           history_firing_start(@, "1"), outcome, 0, 0,
                           IF outcome = "ERROR" THEN "OVER_TEMP" ELSE "NONE"),
                    !.state.calls = @ + 1,
                    !.args = <<"firing", outcome>>,
                    !.result = <<>>]
    /\ UNCHANGED programVars

NextStore == SaveProfileCall \/ DeleteProfileCall \/ RecordFiringCall

SpecStore == InitStore /\ [][NextStore]_vars

\* saves and deletes of profiles whose ids share a storage key
NextProfiles == SaveCopyCall \/ DeleteCopyCall

SpecProfiles == InitProfiles /\ [][NextProfiles]_vars

(***************************************************************************)
(* Properties                                                              *)
(***************************************************************************)
Latched == safety_is_emergency(event_bits)

\* the supervisor has run in the current period
SupervisorJustRan == sched.safety = SAFETY_PERIOD_MS \div TEMP_READ_PERIOD_MS

\* C1: at the end of every supervisor iteration that began with the
\* emergency latch set and ends with it set, i.e. no later than one
\* supervisor period after the latch was set, the SSR output is low.
C1_LatchedSsrLowWithinPeriod ==
    [][(SafetyTask /\ Latched /\ Latched') => ssr_level' = 0]_vars

\* C2: a supervisor iteration that finds the measured temperature above
\* min(max_safe_temp, 1400) ends with the emergency latch set.
C2_OverTempLatches ==
    [][(SafetyTask
        /\ s_latest_reading.temperature_c >
              Min(s_max_safe_temp, HARDWARE_MAX_TEMP_C))
       => Latched']_vars

\* the supervisor has just tripped on a sample above a ceiling that lies
\* below the hardware maximum
C2_Witness ==
    /\ Latched
    /\ supervisor_trip = "OVER_TEMP"
    /\ SupervisorJustRan
    /\ s_max_safe_temp < HARDWARE_MAX_TEMP_C
    /\ s_latest_reading.temperature_c > s_max_safe_temp
    /\ s_latest_reading.temperature_c < HARDWARE_MAX_TEMP_C

Inactive == {"IDLE", "PAUSED", "COMPLETE", "ERROR"}

\* C3: the stored SSR duty lies in [0, 1], and it is 0 whenever the
\* progress status is Idle, Paused, Complete or Error or the emergency latch
\* is set.
C3_DutyZeroUnlessFiring ==
    /\ s_ssr_duty \in 0..DUTY_ONE
    /\ (fe.s_progress.status \in Inactive \/ Latched) => s_ssr_duty = 0

\* C4: a step that takes the emergency latch from set to clear is a call
\* of safety_clear_emergency: no supervisor iteration, engine tick (with the
\* commands it drains and its calls of safety_set_ssr), sent command, relay
\* diagnostic or safety_set_max_temp releases the latch.
C4_OnlyClearReleasesLatch ==
    [][(Latched /\ ~Latched') => SafetyClearEmergency]_vars

\* the latch was set by the supervisor, the engine has seen it and ended
\* the firing in error, the ceiling was changed since boot, and the latch
\* still holds
C4_Witness ==
    /\ Latched
    /\ supervisor_trip = "OVER_TEMP"
    /\ fe.s_progress.status = "ERROR"
    /\ s_max_safe_temp # ClampMaxTemp(DEFAULT_MAX_SAFE_TEMP)
    /\ s_latest_reading.temperature_c < s_max_safe_temp
    /\ SupervisorJustRan

\* a step in which some task returns from safety_set_ssr
SetSsrReturns ==
    \E c \in Callers :
        \/ SetSsrDrive(c)
        \/ SetSsrEnter(c) /\ ssr_pc'[c] = "idle"

\* C5: whenever a call of safety_set_ssr returns while the emergency latch
\* holds, the stored duty is 0 and the SSR output is low, whatever its
\* argument and also when the latch was set while the call was running.
C5_SetSsrNoOpWhileLatched ==
    [][(SetSsrReturns /\ Latched) => (s_ssr_duty' = 0 /\ ssr_level' = 0)]_vars

\* C6 as stated: "the last fault-free sample" is the sampler's last
\* fault-free sample.  A supervisor iteration on a faulted sample latches
\* TempFault and emergency when that sample is older than 5 s, and does not
\* latch emergency while it is at most 5 s old.
C6_FaultDeadlineOfLastSample ==
    [][(SafetyTask /\ s_latest_reading.fault # 0 /\ last_fault_free_ms > 0)
       => /\ (now - last_fault_free_ms > TEMP_FAULT_TIMEOUT_MS)
               => (Latched' /\ SAFETY_BIT_TEMP_FAULT \in event_bits')
          /\ (now - last_fault_free_ms <= TEMP_FAULT_TIMEOUT_MS /\ ~Latched)
               => ~Latched']_vars

\* C6 amended: the deadline runs from the supervisor's last-valid-reading
\* timestamp: the timestamp of the last fault-free reading the supervisor
\* itself fetched, or its start time before it fetched one.  A supervisor
\* iteration on a faulted sample latches TempFault and emergency when that
\* timestamp is more than 5 s old, and does not latch emergency while it is
\* at most 5 s old.
C6_FaultDeadlineOfLastValid ==
    [][(SafetyTask /\ s_latest_reading.fault # 0)
       => /\ (now - last_valid_reading_ms > TEMP_FAULT_TIMEOUT_MS)
               => (Latched' /\ SAFETY_BIT_TEMP_FAULT \in event_bits')
          /\ (now - last_valid_reading_ms <= TEMP_FAULT_TIMEOUT_MS /\ ~Latched)
               => ~Latched']_vars

\* the supervisor has just latched on a fresh faulted sample, more than
\* 5 s after the last fault-free reading it fetched, while the sampler has
\* stored a fault-free sample since
C6_Witness ==
    /\ Latched
    /\ supervisor_trip = "TEMP_FAULT"
    /\ SAFETY_BIT_TEMP_FAULT \in event_bits
    /\ SupervisorJustRan
    /\ s_latest_reading.fault # 0
    /\ s_latest_reading.timestamp_ms = now
    /\ last_fault_free_ms > last_valid_reading_ms
    /\ now - last_valid_reading_ms > TEMP_FAULT_TIMEOUT_MS

\* C7: a supervisor iteration that finds the timestamp of the latest
\* reading more than 5 s old ends with the emergency latch set, also when
\* no reading was ever stored.
C7_StaleSensorLatches ==
    [][(SafetyTask
        /\ now - s_latest_reading.timestamp_ms > TEMP_FAULT_TIMEOUT_MS)
       => Latched']_vars

\* the history records of the firing with the given id
RecordsOf(h, id) == {i \in DOMAIN h.records : h.records[i].id = id}

\* C8: an engine tick that finds the emergency latch set, a firing active
\* (waiting for its delayed start, heating, holding, cooling, paused or
\* auto-tuning) and no command in the inbox ends with status Error, the
\* active flag cleared and duty 0; if the firing was recording, the history
\* then holds exactly one record of it, with outcome Error.
C8_LatchedFiringEndsInError ==
    [][(FiringTask /\ Latched /\ fe.s_progress.is_active
        /\ s_cmd_queue = <<>>)
       => /\ fe'.s_progress.status = "ERROR"
          /\ ~fe'.s_progress.is_active
          /\ s_ssr_duty' = 0
          /\ hist.s_recording
               => /\ Cardinality(RecordsOf(hist', hist.s_current.id)) = 1
                  /\ \A i \in RecordsOf(hist', hist.s_current.id) :
                        hist'.records[i].outcome = "ERROR"]_vars

\* C9: an engine tick that finds a heating firing, no command in the inbox
\* and the latch set by the supervisor on over-temperature leaves the last
\* error code OverTemp and an Error history record carrying OverTemp
\* (TempFault when the supervisor tripped on a sensor fault or a stale
\* sensor).
C9_TripCodeRecorded ==
    [][(FiringTask /\ Latched /\ fe.s_progress.is_active
        /\ fe.s_progress.status = "HEATING" /\ hist.s_recording
        /\ s_cmd_queue = <<>> /\ supervisor_trip # "NONE")
       => LET code == IF supervisor_trip = "OVER_TEMP" THEN "OVER_TEMP"
                      ELSE "TEMP_FAULT"
          IN /\ fe'.s_last_error_code = code
             /\ hist'.records # <<>>
             /\ hist'.records[1].outcome = "ERROR"
             /\ hist'.records[1].error_code = code]_vars

\* the inbox holds exactly one command, a Start or an AutotuneStart
OnlyStartQueued ==
    /\ Len(s_cmd_queue) = 1
    /\ s_cmd_queue[1].type \in {"START", "AUTOTUNE_START"}

\* C10: an engine tick that finds the emergency latch set, no firing active
\* and a Start or AutotuneStart command in the inbox does not accept the
\* command: the profile snapshot, the progress (active flag, status), the
\* last error code and the history (current record, next id, stored
\* records) are as before.
C10_NoStartWhileLatched ==
    [][(FiringTask /\ Latched /\ ~fe.s_progress.is_active /\ OnlyStartQueued)
       => /\ fe'.s_active_profile = fe.s_active_profile
          /\ fe'.s_progress.is_active = fe.s_progress.is_active
          /\ fe'.s_progress.status = fe.s_progress.status
          /\ fe'.s_last_error_code = fe.s_last_error_code
          /\ hist' = hist]_vars

\* a Start or AutotuneStart command waits in the inbox
StartQueued ==
    \E i \in DOMAIN s_cmd_queue :
        s_cmd_queue[i].type \in {"START", "AUTOTUNE_START"}

\* an engine tick that ends a firing (one that was active, or one started
\* by a command of this tick) with status Error
FiringEndsInError ==
    /\ FiringTask
    /\ fe.s_progress.is_active \/ StartQueued
    /\ fe'.s_progress.status = "ERROR"

\* C11: at the end of an engine tick that ends a firing with status Error
\* the firing-complete event bit is not set, whatever firings ran before.
C11_NoCompleteBitOnError ==
    [][FiringEndsInError
       => SAFETY_BIT_FIRING_COMPLETE \notin event_bits']_vars

\* the machine an engine tick starts from
Machine == [fe |-> fe, hist |-> hist, sf |-> SafetyState]

\* the fields of the engine that make up the running firing: profile
\* snapshot, segment, status (the pending start delay included), segment
\* timers and hold flag
FiringView(e) ==
    <<e.s_active_profile, e.s_progress.current_segment, e.s_progress.status,
      e.s_progress.is_active, e.s_delay_active, e.s_delay_start_end_ms,
      e.s_segment_start_time_ms, e.s_segment_start_temp,
      e.s_segment_hold_start_time_ms, e.s_holding>>

\* the inbox holds exactly one command, a Start
OnlyStartCmdQueued ==
    Len(s_cmd_queue) = 1 /\ s_cmd_queue[1].type = "START"

\* C12: an engine tick that finds a firing active (waiting for its delayed
\* start, heating, holding, cooling, paused or auto-tuning) and a Start
\* command alone in the inbox ends as the tick would have ended on an empty
\* inbox: same profile snapshot, segment, status, segment timers, stored
\* duty and history recording.
C12_StartIgnoredWhileActive ==
    [][(FiringTask /\ fe.s_progress.is_active /\ OnlyStartCmdQueued)
       => \E pid_choice \in PidOutputs, amp_ok \in BOOLEAN :
            LET m == FiringIteration(Machine, <<>>, s_latest_reading,
                                     s_settings, now, pid_choice, amp_ok)
            IN /\ FiringView(fe') = FiringView(m.fe)
               /\ s_ssr_duty' = m.sf.duty
               /\ hist' = m.hist]_vars

\* the last command of the inbox is a Stop
StopQueuedLast ==
    s_cmd_queue # <<>> /\ s_cmd_queue[Len(s_cmd_queue)].type = "STOP"

\* the machine when the tick has processed every command but the last
BeforeLastCmd ==
    DrainCommands(Machine, SubSeq(s_cmd_queue, 1, Len(s_cmd_queue) - 1),
                  s_latest_reading, s_settings, now)

\* the tick ends stopped: duty 0, status Idle, active flag cleared
EndsStopped ==
    /\ s_ssr_duty' = 0
    /\ fe'.s_progress.status = "IDLE"
    /\ ~fe'.s_progress.is_active

\* after the tick the firing with the given id has exactly one history
\* record, and its outcome is Aborted
OneAbortedRecord(id) ==
    /\ Cardinality(RecordsOf(hist', id)) = 1
    /\ \A i \in RecordsOf(hist', id) : hist'.records[i].outcome = "ABORTED"

\* C13 as stated: an engine tick that finds a firing active and a Stop as
\* the last command of the inbox ends with duty 0, status Idle and the
\* active flag cleared, and a firing that was recording before the tick
\* then has exactly one history record, with outcome Aborted.
C13_StopEndsFiringAborted ==
    [][(FiringTask /\ fe.s_progress.is_active /\ StopQueuedLast)
       => /\ EndsStopped
          /\ hist.s_recording => OneAbortedRecord(hist.s_current.id)]_vars

\* C13 amended: an engine tick whose last command is a Stop, processed
\* while a firing is active (after the commands queued before it), ends
\* with duty 0, status Idle and the active flag cleared, and the recording
\* that is open when the Stop is processed is closed with exactly one
\* history record, with outcome Aborted.
C13_StopEndsOpenRecordingAborted ==
    [][(FiringTask /\ StopQueuedLast
        /\ BeforeLastCmd.fe.s_progress.is_active)
       => /\ EndsStopped
          /\ BeforeLastCmd.hist.s_recording
               => OneAbortedRecord(BeforeLastCmd.hist.s_current.id)]_vars

\* the engine has just processed a Stop on a recording firing: the firing
\* is stopped and its record is the newest of the history
C13_Witness ==
    /\ sched.firing = FIRING_PERIOD_MS \div TEMP_READ_PERIOD_MS
    /\ fe.s_progress.status = "IDLE"
    /\ ~fe.s_progress.is_active
    /\ s_ssr_duty = 0
    /\ ~hist.s_recording
    /\ hist.records # <<>>
    /\ hist.records[1].outcome = "ABORTED"
    /\ hist.records[1].id = hist.s_current.id

\* a command request that ends with its command not in the inbox because
\* the inbox was full
EnqueueFails(handler) ==
    /\ CommandRequest(handler)
    /\ Len(s_cmd_queue) = CMD_QUEUE_LEN
    /\ s_cmd_queue' = s_cmd_queue

\* C14: whenever a command request of any handler ends with its command
\* not enqueued because the inbox was full, the caller is answered with a
\* failure and the engine state, the history and the inbox are as before.
C14_EnqueueFailureReported ==
    [][\A handler \in CommandHandlers :
          EnqueueFails(handler)
          => /\ ~http_response'.ok
             /\ fe' = fe /\ hist' = hist /\ s_cmd_queue' = s_cmd_queue]_vars

\* the engine holds a segment whose hold_time is 0
InfiniteHold ==
    /\ fe.s_progress.is_active
    /\ fe.s_progress.status = "HOLDING"
    /\ fe.s_holding
    /\ Seg(fe.s_active_profile, fe.s_progress.current_segment).hold_time = 0

\* after the step the engine holds the same segment of the same profile
StaysInHold ==
    /\ fe'.s_progress.is_active
    /\ fe'.s_progress.status = "HOLDING"
    /\ fe'.s_holding
    /\ fe'.s_active_profile = fe.s_active_profile
    /\ fe'.s_progress.current_segment = fe.s_progress.current_segment

\* a SkipSegment or Stop command waits in the inbox
SkipOrStopQueued ==
    \E i \in DOMAIN s_cmd_queue :
        s_cmd_queue[i].type \in {"SKIP_SEGMENT", "STOP"}

C16_NoAdvanceBeforeTarget == fe.h_unheld_advances = {}

\* C16 amended: the end of a hold never leaves a segment (for the next
\* segment or for the end of the firing) that was not seen at its target
\* at some tick since it began; only a SkipSegment command does.
C16_NoHoldEndBeforeTarget == "HOLD_DONE" \notin fe.h_unheld_advances

\* the hold of the first segment has run out and the engine has gone on to
\* the second segment
C16_Witness ==
    /\ fe.s_progress.is_active
    /\ fe.s_progress.current_segment = 1
    /\ fe.s_segment_start_time_ms = now
    /\ now >= 60 * 1000
    /\ fe.h_unheld_advances = {}

\* C17: every call of pid_compute returns a value of [output_min,
\* output_max]; a call with a time step of 0 or less returns output_min and
\* leaves the controller (integral, previous error, first-run flag) as it
\* was.
C17_PidOutputInRange ==
    [][PidComputeCall
       => /\ calc'.result >= calc.state.output_min
          /\ calc'.result <= calc.state.output_max
          /\ calc'.args[3] <= 0
               => /\ calc'.result = calc.state.output_min
                  /\ calc'.state = calc.state]_vars

\* a call with time step 0 or less has returned output_min on a controller
\* that has run before and carries a non-zero integral, under gains that
\* would have driven the output out of range
C17_Witness ==
    /\ calc.fn = "pid_compute"
    /\ calc.args # <<>>
    /\ calc.args[3] <= 0
    /\ calc.result = calc.state.output_min
    /\ ~calc.state.first_run
    /\ calc.state.ki * calc.state.integral > calc.state.output_max

\* C18: gains that auto-tune computed and pid_save_gains stored come back
\* from pid_load_gains identical: the controller initialised from the
\* storage at the next start has the gains the running controller was given
\* when auto-tune finished.
C18_GainsReloadIdentical ==
    (/\ calc.fn = "pid_gains"
     /\ calc.result = <<"LOADED", TRUE>>
     /\ calc.state.saved = "ESP_OK")
    => /\ calc.state.pid.kp = calc.state.h_tuned[1].kp_result
       /\ calc.state.pid.ki = calc.state.h_tuned[1].ki_result
       /\ calc.state.pid.kd = calc.state.h_tuned[1].kd_result

\* C19: a call of firing_engine_set_settings leaves a max_safe_temp of
\* 100 .. 1400 in the settings and the supervisor's ceiling equal to it;
\* the ceiling is at most 1400 in every state, the state after the settings
\* were loaded at start-up included.
C19_MaxSafeTempClamped ==
    /\ [](s_max_safe_temp <= HARDWARE_MAX_TEMP_C)
    /\ [][PostSettings
          => /\ s_settings'.max_safe_temp >= SETTINGS_MIN_TEMP_C
             /\ s_settings'.max_safe_temp <= SETTINGS_MAX_TEMP_C
             /\ s_max_safe_temp' = s_settings'.max_safe_temp]_vars

\* a settings request whose max_safe_temp was outside the range has been
\* answered: the settings hold the nearer end of the range, and the ceiling
\* and the storage hold the same value
C19_Witness ==
    /\ http_response.handler = "handle_post_settings"
    /\ requests_sent = 1
    /\ s_settings.max_safe_temp \in {SETTINGS_MIN_TEMP_C, SETTINGS_MAX_TEMP_C}
    /\ s_max_safe_temp = s_settings.max_safe_temp
    /\ nvs_settings.max_temp = <<s_settings.max_safe_temp>>

\* C20: whatever profiles are saved and deleted, the profile index holds at
\* most 20 ids; whatever firings complete, are aborted or fail, history.json
\* holds at most 20 records.
C20_StoreBounded ==
    calc.fn = "store"
    => /\ Len(calc.state.ids) <= FIRING_MAX_PROFILES
       /\ Len(calc.state.hist.records) <= HISTORY_MAX_RECORDS

\* a profile that is not in the full index has been saved without error,
\* and a firing has ended with 20 records in the history already
C20_Witness ==
    /\ calc.fn = "store"
    /\ calc.args = <<"save", NumberedId(22)>>
    /\ calc.result = <<"ESP_OK">>
    /\ Len(calc.state.ids) = FIRING_MAX_PROFILES
    /\ \A i \in 1..Len(calc.state.ids) : calc.state.ids[i] # NumberedId(22)
    /\ Len(calc.state.hist.records) = HISTORY_MAX_RECORDS
    /\ calc.state.hist.s_next_id > HISTORY_MAX_RECORDS + 2

\* the profile of the storage a load of the id returns
Loads(state, id) == firing_engine_load_profile(state.blobs, id, TRUE)

\* C21: a profile that was saved loads again from its id unchanged in every
\* field, whatever profiles with other ids were saved or deleted since.
C21_SaveThenLoadIdentity ==
    calc.fn = "profiles"
    => \A id \in DOMAIN calc.state.h_saved :
          Loads(calc.state, id)
             = [err |-> "ESP_OK", profile |-> <<calc.state.h_saved[id]>>]

\* C22: a delete of an id that is not stored leaves the index and every
\* stored profile as they were; a delete of a stored id makes its load fail
\* with NotFound and unlists it, while every profile with another id stays
\* listed and loads as before.
C22_DeleteOnlyItsProfile ==
    [][(DeleteCopyCall /\ calc'.result = <<"ESP_OK">>)
       => LET id == calc'.args[2]
              stored == DOMAIN calc.state.h_saved
          IN IF id \notin stored
             THEN /\ calc'.state.ids = calc.state.ids
                  /\ calc'.state.blobs = calc.state.blobs
             ELSE /\ Loads(calc'.state, id).err = "ESP_ERR_NVS_NOT_FOUND"
                  /\ id \notin firing_engine_list_profiles(calc'.state.ids)
                  /\ \A other \in stored \ {id} :
                       /\ other \in firing_engine_list_profiles(calc.state.ids)
                            => other \in firing_engine_list_profiles(
                                            calc'.state.ids)
                       /\ Loads(calc'.state, other)
                            = Loads(calc.state, other)]_vars

\* the ids of the records of history.json
RecordIds(h) == {h.records[i].id : i \in 1..Len(h.records)}

\* C23: the records are kept newest first; the record that leaves when a
\* 21st is added is the one with the oldest id; every retained record has
\* its trace file and no other trace file remains.
C23_EvictionErasesTrace ==
    /\ [](calc.fn = "store"
          => LET h == calc.state.hist
             IN /\ \A i, j \in 1..Len(h.records) :
                     i < j => h.records[i].id > h.records[j].id
                /\ h.traces = RecordIds(h))
    /\ [][(RecordFiringCall
           /\ Len(calc.state.hist.records) = HISTORY_MAX_RECORDS)
          => LET old == RecordIds(calc.state.hist)
                 oldest == CHOOSE id \in old : \A other \in old : id <= other
             IN RecordIds(calc'.state.hist)
                  = (old \ {oldest}) \cup {calc.state.hist.s_next_id}]_vars

\* the machine of an engine tick when it reaches the safety checks of the
\* normal firing: the inbox drained, an expired start delay handled, the
\* temperature fetched
AtChecks ==
    LET m1 == DrainCommands(Machine, s_cmd_queue, s_latest_reading,
                            s_settings, now)
        m2 == IF m1.fe.s_delay_active
              THEN DelayExpired(m1, s_latest_reading, s_settings, now)
              ELSE m1
    IN [m2 EXCEPT !.fe.s_progress.current_temp =
                     s_latest_reading.temperature_c + s_settings.tc_offset_c]

\* the engine tick runs the normal firing
ReachesChecks ==
    LET m1 == DrainCommands(Machine, s_cmd_queue, s_latest_reading,
                            s_settings, now)
    IN /\ ~(m1.fe.s_delay_active /\ now < m1.fe.s_delay_start_end_ms)
       /\ ~safety_is_emergency(event_bits)
       /\ AtChecks.fe.s_progress.is_active
       /\ AtChecks.fe.s_progress.status \in {"HEATING", "HOLDING", "COOLING"}

\* the engine tick latches the emergency with the given error code
Raises(code) ==
    /\ ~safety_is_emergency(event_bits)
    /\ safety_is_emergency(event_bits')
    /\ fe'.s_last_error_code = code

\* the conditions under which the not-rising guard is to fire
NotRisingDue(m) ==
    /\ m.fe.s_progress.status = "HEATING"
    /\ ~m.fe.s_holding
    /\ Seg(m.fe.s_active_profile,
           m.fe.s_progress.current_segment).ramp_rate > 0
    /\ now - m.fe.s_check_start_time_ms >= RISING_CHECK_INTERVAL_MS
    /\ m.fe.s_progress.current_temp - m.fe.s_check_start_temp
          < RISING_THRESHOLD_C

\* C24: an engine tick raises the NotRising emergency if and only if the
\* status is Heating, the segment is not holding, its ramp is positive, 15
\* minutes or more have passed since the start of the guard window and the
\* temperature has risen by less than 10 degrees over the window; in
\* particular never for a segment with a negative ramp.
C24_NotRisingIffDue ==
    [][FullPowerFiringTask
       => (Raises("NOT_RISING")
             <=> (ReachesChecks /\ NotRisingDue(AtChecks)))]_vars

\* the time the segment of the machine has run, in ms
SegmentElapsedMs(m) == now - m.fe.s_segment_start_time_ms

\* the rate observed since the start of the segment (rise over elapsed
\* time, in degrees per hour) exceeds rate_c_hr
ObservedRateAbove(m, rate_c_hr) ==
    (m.fe.s_progress.current_temp - m.fe.s_segment_start_temp) * 3600000
       > rate_c_hr * SegmentElapsedMs(m)

\* the conditions under which the runaway check is to fire
RunawayDue(m) ==
    LET seg == Seg(m.fe.s_active_profile, m.fe.s_progress.current_segment)
    IN /\ m.fe.s_progress.status = "HEATING"
       /\ ~m.fe.s_holding
       /\ SegmentElapsedMs(m) > RUNAWAY_GRACE_MS
       /\ seg.ramp_rate # 0
       /\ ObservedRateAbove(m, RUNAWAY_RATE_MULTIPLIER * seg.ramp_rate)
       /\ ObservedRateAbove(m, RUNAWAY_MIN_RATE_C_HR)

\* C25: an engine tick that finds the status Heating, the segment not
\* holding and more than 300 s old, its ramp not zero and the rate observed
\* since the segment's start above both twice the ramp and 50 degrees per
\* hour ends with the emergency latched and the error code Runaway; no tick
\* raises Runaway within the first 300 s of a segment.
C25_RunawayAfterGrace ==
    [][FullPowerFiringTask
       => /\ (ReachesChecks /\ RunawayDue(AtChecks))
               => /\ safety_is_emergency(event_bits')
                  /\ fe'.s_last_error_code = "RUNAWAY"
          /\ Raises("RUNAWAY")
               => /\ ReachesChecks
                  /\ SegmentElapsedMs(AtChecks) > RUNAWAY_GRACE_MS]_vars

\* the engine has stopped a heating segment with Runaway after a kiln that
\* was at 20 degrees at the segment's start was found at 50 degrees
C25_Witness ==
    /\ safety_is_emergency(event_bits)
    /\ fe.s_last_error_code = "RUNAWAY"
    /\ fe.s_segment_start_temp = 20
    /\ fe.s_progress.current_temp = 50
    /\ now - fe.s_segment_start_time_ms > RUNAWAY_GRACE_MS

\* the temperature an engine tick measures: the latest reading with the
\* thermocouple offset applied
Measured == s_latest_reading.temperature_c + s_settings.tc_offset_c

\* an engine tick whose last command is a SkipSegment that finds a firing
\* active and a next segment to go to
SkipAdvance ==
    /\ FullPowerFiringTask
    /\ s_cmd_queue # <<>>
    /\ s_cmd_queue[Len(s_cmd_queue)].type = "SKIP_SEGMENT"
    /\ BeforeLastCmd.fe.s_progress.is_active
    /\ BeforeLastCmd.fe.s_progress.current_segment + 1
          < BeforeLastCmd.fe.s_progress.total_segments

\* an engine tick with an empty inbox in which a hold runs out and the
\* engine goes to the next segment
HoldAdvance ==
    /\ FullPowerFiringTask
    /\ s_cmd_queue = <<>>
    /\ fe.s_holding
    /\ fe'.s_progress.is_active
    /\ fe'.s_progress.current_segment = fe.s_progress.current_segment + 1

\* the segment of the firing after the tick was started at the measured
\* temperature, with the guard window reset to the measured temperature
\* and to the time of the tick
StartedAfresh ==
    /\ fe'.s_segment_start_temp = Measured
    /\ fe'.s_segment_start_time_ms = now
    /\ fe'.s_check_start_temp = Measured
    /\ fe'.s_check_start_time_ms = now

\* C26: a segment advance to an existing next segment, by the end of a
\* hold or by a SkipSegment command, starts the next segment at the
\* measured temperature, resets the guard window of the not-rising check
\* to the moment of the advance, and makes the status Heating if the next
\* ramp is 0 or more and Cooling otherwise.
C26_AdvanceStartsAfresh ==
    /\ [][HoldAdvance
          => /\ StartedAfresh
             /\ fe'.s_progress.status =
                  RampStatus(Seg(fe.s_active_profile,
                                 fe'.s_progress.current_segment))]_vars
    /\ [][SkipAdvance
          => LET m == ProcessCmd(BeforeLastCmd,
                                 s_cmd_queue[Len(s_cmd_queue)],
                                 s_latest_reading, s_settings, now)
             IN /\ StartedAfresh
                /\ m.fe.s_progress.status =
                     RampStatus(Seg(m.fe.s_active_profile,
                                    m.fe.s_progress.current_segment))]_vars

\* the records of a history with outcome Complete
CompleteRecords(h) ==
    {i \in 1..Len(h.records) : h.records[i].outcome = "COMPLETE"}

\* an engine tick that finalizes a firing as Complete
FinalizedComplete ==
    /\ FullPowerFiringTask
    /\ fe.s_progress.status # "COMPLETE"
    /\ fe'.s_progress.status = "COMPLETE"

\* C27: the tick that finalizes a firing as Complete, after the hold of
\* the last segment or by a SkipSegment on the last segment, sets the duty
\* to 0, clears the active flag, writes exactly one Complete history
\* record, flushes the element-hours counter to storage and sets the
\* firing-complete event bit.
C27_CompleteFinalization ==
    [][FinalizedComplete
       => /\ s_ssr_duty' = 0
          /\ ~fe'.s_progress.is_active
          /\ Cardinality(CompleteRecords(hist'))
               = Cardinality(CompleteRecords(hist)) + 1
          /\ fe'.nvs_elem_hrs = fe'.s_element_on_s
          /\ SAFETY_BIT_FIRING_COMPLETE \in event_bits']_vars

\* an engine tick that finds a start delay pending and no Start or Stop
\* in the inbox
DelayTick ==
    /\ FullPowerFiringTask
    /\ fe.s_delay_active
    /\ \A i \in 1..Len(s_cmd_queue) :
          s_cmd_queue[i].type \in {"PAUSE", "RESUME", "SKIP_SEGMENT"}

\* C28: while the delay of a delayed Start is pending the engine issues no
\* nonzero duty and starts no history recording, and unless a Stop
\* cancelled the delay, the first tick at or after the deadline enters
\* Heating at segment 0 and starts the history recording, whatever Pause,
\* Resume or SkipSegment commands arrived during the delay.
C28_DelayedStart ==
    [][DelayTick
       => IF now < fe.s_delay_start_end_ms
          THEN /\ s_ssr_duty' \in {0, s_ssr_duty}
               /\ hist'.s_next_id = hist.s_next_id
               /\ hist.s_recording \/ ~hist'.s_recording
          ELSE /\ fe'.s_progress.is_active
               /\ fe'.s_progress.status = "HEATING"
               /\ fe'.s_progress.current_segment = 0
               /\ hist'.s_recording
               /\ hist'.s_next_id = hist.s_next_id + 1]_vars

\* an engine tick that finds the status Paused, no emergency latch, and no
\* command in the inbox other than Pause
PausedTick ==
    /\ FullPowerFiringTask
    /\ fe.s_progress.status = "PAUSED"
    /\ ~safety_is_emergency(event_bits)
    /\ \A i \in 1..Len(s_cmd_queue) : s_cmd_queue[i].type = "PAUSE"

\* C29: once the status is Paused, every tick leaves the stored duty at 0
\* and the status Paused until a Resume, Stop, SkipSegment, Start or
\* auto-tune command is processed or the emergency latch is observed; no
\* timer (delay deadline, hold timer) ends the pause.
C29_PausedUntilCommand ==
    [][PausedTick
       => /\ fe'.s_progress.status = "PAUSED"
          /\ s_ssr_duty' = 0]_vars

\* the gains a controller gets from the storage
StoredGains(nvs) ==
    LET g == pid_load_gains(nvs, TRUE)
    IN [kp_result |-> g.kp, ki_result |-> g.ki, kd_result |-> g.kd]

\* C30: when auto-tune completes, the engine persists the resulting
\* gains, initialises the controller with them and returns to Idle with
\* duty 0; when auto-tune ends by the timeout of 60 minutes or by a mean
\* amplitude under 0.1 degree, the engine returns to Idle with duty 0 and
\* leaves the persisted gains and the gains of the controller unchanged.
C30_AutotuneEnd ==
    [][AutotuneDone
       => /\ calc'.state.status = "IDLE"
          /\ calc'.state.duty = 0
          /\ IF calc'.result = <<"AUTOTUNE_COMPLETE">>
             THEN LET g == calc'.state.h_tuned[1]
                  IN /\ calc'.state.pid.kp = g.kp_result
                     /\ calc'.state.pid.ki = g.ki_result
                     /\ calc'.state.pid.kd = g.kd_result
                     /\ calc'.state.saved = "ESP_OK"
                          => StoredGains(calc'.state.nvs) = g
             ELSE /\ calc'.state.nvs = calc.state.nvs
                  /\ calc'.state.pid = calc.state.pid]_vars

\* an AutotuneStart command the engine has to reject: the setpoint is over
\* the ceiling, or the setpoint or the hysteresis is not positive
BadAutotuneStart(cmd) ==
    /\ cmd.type = "AUTOTUNE_START"
    /\ \/ cmd.setpoint > s_max_safe_temp
       \/ cmd.setpoint <= 0
       \/ cmd.hysteresis <= 0

\* C31: the engine itself rejects an AutotuneStart command whose setpoint
\* is over max_safe_temp or whose setpoint or hysteresis is not positive:
\* processing the command sets neither the status Autotune nor the active
\* flag.
C31_EngineRejectsBadAutotune ==
    [][(/\ FullPowerFiringTask
        /\ s_cmd_queue # <<>>
        /\ BadAutotuneStart(s_cmd_queue[Len(s_cmd_queue)]))
       => LET m == ProcessCmd(BeforeLastCmd, s_cmd_queue[Len(s_cmd_queue)],
                              s_latest_reading, s_settings, now)
          IN /\ m.fe.s_progress.status = BeforeLastCmd.fe.s_progress.status
             /\ m.fe.s_progress.is_active
                  = BeforeLastCmd.fe.s_progress.is_active
             /\ fe'.s_progress.status # "AUTOTUNE"]_vars

\* an engine tick that makes one auto-tune update: the status is Autotune,
\* the tuner is heating or cycling, the inbox is empty and the emergency
\* latch is clear
TuneTick ==
    /\ FullPowerFiringTask
    /\ s_cmd_queue = <<>>
    /\ ~safety_is_emergency(event_bits)
    /\ fe.s_progress.is_active
    /\ fe.s_progress.status = "AUTOTUNE"
    /\ fe.s_autotune.state \in {"HEATING_TO_SETPOINT", "RELAY_CYCLING"}

\* the temperature is on the other side of the setpoint than it was at the
\* previous update
SignChanged ==
    (Measured > fe.s_autotune.setpoint)
        # (fe.s_progress.current_temp > fe.s_autotune.setpoint)

\* C32: the auto-tune phase only moves from heating to relay cycling and
\* from there to Complete or Failed; while cycling, the half-cycle counter
\* is incremented exactly at the updates where the temperature has changed
\* sides of the setpoint since the previous update, every second crossing
\* commits one cycle, and the phase becomes Complete only when 5 cycles
\* are committed.
C32_AutotunePhases ==
    [][TuneTick
       => LET at == fe.s_autotune
              nx == fe'.s_autotune
              counted == nx.half_cycles # at.half_cycles
          IN /\ <<at.state, nx.state>> \in
                    {<<"HEATING_TO_SETPOINT", "HEATING_TO_SETPOINT">>,
                     <<"HEATING_TO_SETPOINT", "RELAY_CYCLING">>,
                     <<"HEATING_TO_SETPOINT", "FAILED">>,
                     <<"RELAY_CYCLING", "RELAY_CYCLING">>,
                     <<"RELAY_CYCLING", "COMPLETE">>,
                     <<"RELAY_CYCLING", "FAILED">>}
             /\ at.state = "RELAY_CYCLING" => (counted <=> SignChanged)
             /\ (at.state = "RELAY_CYCLING" /\ counted)
                   => IF at.half_cycles = 0
                      THEN /\ nx.half_cycles = 1
                           /\ nx.cycles_done = at.cycles_done
                      ELSE /\ nx.half_cycles = 0
                           /\ nx.cycles_done = at.cycles_done + 1
             /\ nx.state = "COMPLETE"
                   => nx.cycles_done = AUTOTUNE_CYCLES_NEEDED
             /\ nx.cycles_done >= AUTOTUNE_CYCLES_NEEDED
                   => nx.state \in {"COMPLETE", "FAILED"}]_vars

\* the output of a call of pid_compute before it is clamped: the sum of
\* the three terms, the integral term taken after the step
Unclamped(pid, setpoint, measured, dt_s) ==
    LET error == setpoint - measured
    IN pid.kp * error + pid.ki * (pid.integral + error * dt_s)
       + (IF pid.first_run THEN 0
          ELSE Quot(pid.kd * (error - pid.prev_error), dt_s))

\* C33: in a call of pid_compute that computes an output (time step above
\* 0), the integral is back at its value before the step when the
\* unclamped output is above output_max and the error is positive, or
\* below output_min and the error is negative; in every other case the
\* integral has grown by exactly error * dt.
C33_AntiWindup ==
    [][(PidComputeCall /\ calc'.args[3] > 0)
       => LET pid == calc.state
              error == calc'.args[1] - calc'.args[2]
              dt_s == calc'.args[3]
              u == Unclamped(pid, calc'.args[1], calc'.args[2], dt_s)
          IN IF \/ u > pid.output_max /\ error > 0
                \/ u < pid.output_min /\ error < 0
             THEN calc'.state.integral = pid.integral
             ELSE calc'.state.integral = pid.integral + error * dt_s]_vars

\* a call with a positive error has driven the output above output_max on
\* a controller whose integral was 0: the call returned output_max and the
\* integral is 0 again
C33_Witness ==
    /\ calc.fn = "pid_compute"
    /\ calc.args # <<>>
    /\ calc.args[3] > 0
    /\ calc.args[1] - calc.args[2] > 0
    /\ calc.state.ki > 0
    /\ calc.result = calc.state.output_max
    /\ calc.state.integral = 0

\* C34: a sample read with the fault bit set still replaces the shared
\* latest reading (new timestamp, fault mask from the three low bits,
\* temperature 0, cold junction 0); a failed bus read leaves the shared
\* latest reading, its timestamp included, as it was; and a reader always
\* obtains a whole reading, never a mix of two samples.
C34_ReadingReplacedWhole ==
    /\ [][(SensorStore /\ calc'.state.w_pc = 0 /\ calc.args[2].d16 = 1)
          => calc'.state.latest =
                [temperature_c |-> 0, internal_temp_c |-> 0,
                 fault |-> calc.args[2].low,
                 timestamp_us |-> calc.state.reads]]_vars
    /\ [][(SensorRead /\ ~calc'.args[1])
          => /\ calc'.state.latest = calc.state.latest
             /\ calc'.state.w_pc = 0]_vars
    /\ [](calc.fn = "thermocouple" /\ calc.state.r_pc = 0
          => calc.state.out \in calc.state.h_stored)

\* a reader has copied the reading of a faulted sample that replaced a
\* sound one, after a later bus read failed
C34_Witness ==
    /\ calc.fn = "thermocouple"
    /\ calc.state.reads = MaxSensorReads
    /\ calc.result = <<"ESP_FAIL">>
    /\ calc.state.r_pc = 0
    /\ calc.state.copies > 0
    /\ calc.state.out = calc.state.latest
    /\ calc.state.out.fault = 7
    /\ calc.state.out.timestamp_us = 2
    /\ Cardinality(calc.state.h_stored) = 3

\* a step of safety_set_ssr made by the firing task or by an HTTP handler
CallerStep ==
    \E c \in Callers : SetSsrEnter(c) \/ SetSsrStore(c) \/ SetSsrDrive(c)

\* C35: the level of the SSR output is written only by the supervisor
\* task: no step of the firing task or of an HTTP handler changes it.
C35_OnlySupervisorDrivesSsr ==
    [][CallerStep => ssr_level' = ssr_level]_vars

\* C36: while the engine hands the same duty d to safety_set_ssr at every
\* tick of a firing, the SSR output is high exactly while the time elapsed
\* in the 2000 ms window is below d x 2000 ms.
C36_TimeProportional ==
    \A d \in PartDuties :
       (/\ fe.s_progress.is_active
        /\ fe.s_progress.status = "HEATING"
        /\ ~safety_is_emergency(event_bits)
        /\ s_ssr_duty = d)
       => (ssr_level = 1
           <=> now - s_ssr_window_start_ms < (d * SSR_WINDOW_MS) \div DUTY_ONE)

\* C37: every stored profile and every profile being fired has between 1
\* and 16 segments; a profile with segment_count 0 is never stored and
\* never fired.
C37_SegmentCountInRange ==
    /\ calc.fn = "intake"
          => \A key \in DOMAIN calc.state.blobs :
                calc.state.blobs[key].segment_count
                    \in 1..FIRING_MAX_SEGMENTS
    /\ (fe.s_progress.is_active
          /\ fe.s_progress.status \in {"HEATING", "HOLDING", "COOLING"})
          => fe.s_active_profile.segment_count \in 1..FIRING_MAX_SEGMENTS

\* the highest target temperature of a segment list
MaxTarget(segments) ==
    CHOOSE t \in {segments[i].target_temp : i \in 1..Len(segments)} :
        \A i \in 1..Len(segments) : segments[i].target_temp <= t

\* C38: the profile cone_fire_generate makes for a cone, a speed, preheat
\* and slow_cool has max_temp equal to the highest target_temp of its
\* segments and 3 + preheat + 2 x (slow_cool and target > 650) segments,
\* and a second call with the same arguments gives the same profile.
C38_ConeProfile ==
    (calc.fn = "cone_fire_generate" /\ calc.result # <<>>
       /\ calc.args[1] \in ConeIds)
    => LET profile == calc.result[2]
           target == cone_target_temp_c(calc.args[1], calc.args[2])
       IN /\ profile.max_temp = MaxTarget(profile.segments)
          /\ profile.segment_count =
                3 + (IF calc.args[3] THEN 1 ELSE 0)
                  + (IF calc.args[4] /\ target > 650 THEN 2 ELSE 0)
          /\ profile.segment_count = Len(profile.segments)
          /\ calc.state.calls > 1 => calc.result = calc.state.h_previous

\* the engine before the last two commands of the inbox are handled, and
\* after the whole inbox is
BeforePauseResume ==
    DrainCommands(Machine, SubSeq(s_cmd_queue, 1, Len(s_cmd_queue) - 2),
                  s_latest_reading, s_settings, now)

AfterCommands ==
    DrainCommands(Machine, s_cmd_queue, s_latest_reading, s_settings, now)

\* an engine tick whose last two commands are a Pause and a Resume that
\* find a firing or an auto-tune run going
PauseThenResume ==
    /\ FiringTask
    /\ Len(s_cmd_queue) >= 2
    /\ s_cmd_queue[Len(s_cmd_queue) - 1].type = "PAUSE"
    /\ s_cmd_queue[Len(s_cmd_queue)].type = "RESUME"
    /\ BeforePauseResume.fe.s_progress.is_active
    /\ BeforePauseResume.fe.s_progress.status
          \in {"HEATING", "HOLDING", "COOLING", "AUTOTUNE"}

ClosingRecords(id) ==
    Cardinality({i \in 1..Len(hist.records) : hist.records[i].id = id})

\* the recording started under the id is still open
RecordingOpen(id) == hist.s_recording /\ hist.s_current.id = id

\* C40: every recording that was started is closed by exactly one history
\* record or is the one still open, never both and never neither, and no
\* recording is open while the engine is Idle, Complete or in Error.
C40_RecordingsClosedOnce ==
    /\ \A id \in 1..(hist.s_next_id - 1) :
          IF RecordingOpen(id) THEN ClosingRecords(id) = 0 ELSE ClosingRecords(id) = 1
    /\ fe.s_progress.status \in {"IDLE", "COMPLETE", "ERROR"}
          => ~hist.s_recording

====
